---- MODULE Spec2Model ----
(***************************************************************************)
(* The script cache of the server (src/src/eval.c), the lazy-free hand-off *)
(* of a flushed cache (src/src/lazyfree.c) and the debug flags of a client *)
(* that route EVAL / EVALSHA (src/src/lua/debug_lua.c).                    *)
(*                                                                         *)
(* C strings (sds) are sequences of one-character strings.  Pointers to    *)
(* heap objects (list nodes, compiled functions, child pids) are positive  *)
(* integers, 0 is the null pointer; an allocation returns an identifier    *)
(* that no live object holds.                                              *)
(***************************************************************************)
EXTENDS Integers, Sequences, FiniteSets, TLC

(***************************************************************************)
(* Bounds of the model.                                                    *)
(***************************************************************************)
\* Number of filler scripts ("f<i>") a warmed-up cache starts with.
NumFill == 499
\* Largest number of forked debugging children kept in ldb.children.
MaxChildren == 1
\* Number of clients connected to the server.
NumClients == 2
\* Largest number of log lines the debugger holds before it sends them,
\* beyond those one command of the REPL logs.
MaxLogs == 1
\* The flag names in one flags= option and the options in one header.
MaxFlags == 2
MaxOptions == 1
\* Engines are registered while the running total of memory overhead is
\* at most this many bytes below its value at start-up.
MaxLost == 136
\* Number of HELLO filler scripts a cache starts with that is flushed
\* while HELLO scripts run: more than LAZYFREE_THRESHOLD.
NumHelloFill == 65

(***************************************************************************)
(* Program constants.                                                      *)
(***************************************************************************)
LRU_LIST_LENGTH == 500
LAZYFREE_THRESHOLD == 64
SHA_LEN == 40
SHA1_DIGEST_BYTES == 20
LDB_MAX_LEN_DEFAULT == 256
LDB_BREAKPOINTS_MAX == 64
\* sizeof(int), in bytes, and the number of values of a byte.
SizeofInt == 4
ByteValues == 256
\* The lines of the help of the REPL, the largest request the REPL
\* buffers (1 MiB) and the lines it lists around the current one.
LdbHelpLines == 30
LdbMaxClientBuffer == 1048576

\* The null pointer.
NULL == 0

(***************************************************************************)
(* Strings.                                                                *)
(***************************************************************************)
UpperAZ ==
  <<"A","B","C","D","E","F","G","H","I","J","K","L","M",
    "N","O","P","Q","R","S","T","U","V","W","X","Y","Z">>
LowerAZ ==
  <<"a","b","c","d","e","f","g","h","i","j","k","l","m",
    "n","o","p","q","r","s","t","u","v","w","x","y","z">>
Digits == <<"0","1","2","3","4","5","6","7","8","9">>
Others == <<"#","!"," ","=",",","-","\n","(",")","_">>

\* The characters of the model, in the order that gives each its code.
Alphabet == Others \o Digits \o UpperAZ \o LowerAZ

CharCode == [c \in {Alphabet[i] : i \in 1..Len(Alphabet)} |->
               CHOOSE i \in 1..Len(Alphabet) : Alphabet[i] = c]

\* 'A'..'Z' -> 'a'..'z', as sha[j] + ('a' - 'A') does.
LowerOfUpper == [c \in {UpperAZ[i] : i \in 1..26} |->
                   LowerAZ[CHOOSE i \in 1..26 : UpperAZ[i] = c]]
UpperOfLower == [c \in {LowerAZ[i] : i \in 1..26} |->
                   UpperAZ[CHOOSE i \in 1..26 : LowerAZ[i] = c]]

\* tolower() of the C locale.
tolower(c) == IF c \in DOMAIN LowerOfUpper THEN LowerOfUpper[c] ELSE c
toupper(c) == IF c \in DOMAIN UpperOfLower THEN UpperOfLower[c] ELSE c

\* strcasecmp(a, b) == 0 for strings of one length.
strcaseeq(a, b) == \A i \in 1..Len(a) : tolower(a[i]) = tolower(b[i])

\* dictSdsKeyCaseCompare: the lengths first, then strcasecmp.
dictSdsKeyCaseCompare(key1, key2) ==
  /\ Len(key1) = Len(key2)
  /\ strcaseeq(key1, key2)

\* strncmp(s, p, Len(p)) == 0.
HasPrefix(s, p) ==
  /\ Len(s) >= Len(p)
  /\ \A i \in 1..Len(p) : s[i] = p[i]

\* The decimal rendering of a natural number.
RECURSIVE Decimal(_)
Decimal(n) == IF n < 10 THEN <<Digits[n + 1]>>
              ELSE Decimal(n \div 10) \o <<Digits[(n % 10) + 1]>>

(***************************************************************************)
(* The script bodies of the model.                                         *)
(***************************************************************************)
\* "return 1"
BodyA == <<"r","e","t","u","r","n"," ","1">>
\* "#!lua flags=no-writes\nreturn 2"
BodyB ==
  <<"#","!","l","u","a"," ","f","l","a","g","s","=","n","o","-","w","r","i","t","e","s","\n","r","e","t","u","r","n"," ","2">>
\* "return 3"
BodyC == <<"r","e","t","u","r","n"," ","3">>
\* "#!xyz\nfoo": no engine of that name.
BodyNoEngine == <<"#","!","x","y","z","\n","f","o","o">>
\* "#!lua": a header without newline.
BodyNoNewline == <<"#","!","l","u","a">>
\* "#!lua flags=bogus\nreturn 1": an unknown flag.
BodyBadFlag ==
  <<"#","!","l","u","a"," ","f","l","a","g","s","=","b","o","g","u","s","\n","r","e","t","u","r","n"," ","1">>
\* "#!lua x=1\nreturn 1": an unknown option.
BodyBadOption == <<"#","!","l","u","a"," ","x","=","1","\n","r","e","t","u","r","n"," ","1">>
\* "return )": a syntax error.
BodySyntax == <<"r","e","t","u","r","n"," ",")">>

\* A script of more lines than the debugger holds breakpoints: empty
\* lines, then "return 1".
LongLines == LDB_BREAKPOINTS_MAX + 2
BodyLong == [i \in 1..(LongLines - 1) |-> "\n"] \o BodyA

\* "local x = 1\nreturn x": a script of two lines.
BodyTwoLines ==
  <<"l","o","c","a","l"," ","x"," ","=","1","\n","r","e","t","u","r","n"," ","x">>

GoodBodies == {BodyA, BodyB, BodyC}
BadBodies == {BodyNoEngine, BodyNoNewline, BodyBadFlag, BodyBadOption, BodySyntax}

\* The body of the i-th filler script.
FillerBody(i) == <<"f">> \o Decimal(i)

\* The HELLO filler script i: a function that returns.
HelloFillerBody(i) ==
  <<"#","!","h","e","l","l","o","\n","F","U","N","C","T","I","O","N"," ","f">>
    \o Decimal(i) \o <<"\n","R","E","T","U","R","N">>

\* Bodies for the engine HELLO of tests/modules/helloscripting.c: one
\* function, two functions, no function, and a token that is no
\* instruction.
BodyHelloOne ==
  <<"#","!","h","e","l","l","o","\n","F","U","N","C","T","I","O","N"," ",
    "f","\n","R","E","T","U","R","N">>

BodyHelloTwo ==
  <<"#","!","h","e","l","l","o","\n","F","U","N","C","T","I","O","N"," ",
    "f","\n","R","E","T","U","R","N","\n","F","U","N","C","T","I","O","N",
    " ","g","\n","R","E","T","U","R","N">>

BodyHelloNone ==
  <<"#","!","h","e","l","l","o","\n">>

BodyHelloBad ==
  <<"#","!","h","e","l","l","o","\n","F","O","O">>

(***************************************************************************)
(* The hasher.  SHA1Init / SHA1Update / SHA1Final live outside the files   *)
(* at hand: SHA1 is a fixed function of the bytes of the body that yields  *)
(* 20 bytes and does not collide on the bodies of the model.               *)
(***************************************************************************)
HashMod == 1048573

\* The hash h after the bytes lo .. hi of s went into it one after the
\* other: the first half of them, then the second.
RECURSIVE HashFold(_, _, _, _)
HashFold(s, lo, hi, h) ==
  IF lo > hi THEN h
  ELSE IF lo = hi THEN (h * 131 + CharCode[s[lo]]) % HashMod
  ELSE CHOOSE r \in {HashFold(s, ((lo + hi) \div 2) + 1, hi, half) :
                       half \in {HashFold(s, lo, (lo + hi) \div 2, h)}} : TRUE

SHA1(bytes) ==
  LET h == HashFold(bytes, 1, Len(bytes), 7)
  IN [j \in 0..(SHA1_DIGEST_BYTES - 1) |->
        CASE j = 0 -> h % 256
          [] j = 1 -> (h \div 256) % 256
          [] j = 2 -> (h \div 65536) % 256
          [] OTHER -> (h * (j + 3) + 11 * j) % 256]

HexCset == <<"0","1","2","3","4","5","6","7","8","9","a","b","c","d","e","f">>

\* sha1hex: two characters of cset per byte of the hash.
sha1hex(script) ==
  LET hash == SHA1(script)
  IN [k \in 1..SHA_LEN |->
        IF (k - 1) % 2 = 0
        THEN HexCset[(hash[(k - 1) \div 2] \div 16) + 1]
        ELSE HexCset[(hash[(k - 1) \div 2] % 16) + 1]]

\* The lowercase of a string.
LowerCase(s) == [i \in 1..Len(s) |-> tolower(s[i])]

\* The digests of the bodies of the model, computed once.
Sha1HexMemo ==
  [b \in GoodBodies \cup BadBodies \cup {BodyLong, BodyTwoLines} \cup
          {FillerBody(i) : i \in 1..(NumFill + 2)}
     |-> sha1hex(b)]

Digest(script) ==
  IF script \in DOMAIN Sha1HexMemo THEN Sha1HexMemo[script] ELSE sha1hex(script)

\* evalCalcScriptHash that hashes the code after the header of the body.
evalCalcScriptHash_SkipsHeader(evalsha, script) ==
  IF ~evalsha
  THEN LET ends == {i \in 1..Len(script) : script[i] = "\n"}
       IN IF Len(script) >= 2 /\ script[1] = "#" /\ script[2] = "!" /\ ends # {}
          THEN Digest(SubSeq(script,
                             (CHOOSE i \in ends : \A j \in ends : i <= j) + 1,
                             Len(script)))
          ELSE Digest(script)
  ELSE [j \in 1..SHA_LEN |->
          IF script[j] \in DOMAIN LowerOfUpper THEN LowerOfUpper[script[j]]
          ELSE script[j]]

\* evalCalcScriptHash: hash the body (EVAL), or lowercase the first 40
\* characters of the argument (EVALSHA).
evalCalcScriptHash(evalsha, script) ==
  IF ~evalsha THEN Digest(script)
  ELSE [j \in 1..SHA_LEN |->
          IF script[j] \in DOMAIN LowerOfUpper THEN LowerOfUpper[script[j]]
          ELSE script[j]]

(***************************************************************************)
(* The script header (shebang).                                            *)
(***************************************************************************)
\* The position of the first c in s at or after position i, 0 if none
\* (strchr).
IndexFrom(s, c, i) ==
  IF \A k \in i..Len(s) : s[k] # c THEN 0
  ELSE CHOOSE k \in i..Len(s) : s[k] = c /\ \A m \in i..(k - 1) : s[m] # c

\* sdssplitargs, for a line without quotes: the maximal runs of
\* non-blank characters.
RECURSIVE sdssplitargs(_)
sdssplitargs(line) ==
  IF line = <<>> THEN <<>>
  ELSE IF line[1] = " " THEN sdssplitargs(Tail(line))
  ELSE LET sp == IndexFrom(line, " ", 1)
       IN IF sp = 0 THEN <<line>>
          ELSE <<SubSeq(line, 1, sp - 1)>> \o
               sdssplitargs(SubSeq(line, sp + 1, Len(line)))

\* sdssplitlen with a separator of one character: no token for an empty
\* string, otherwise every field, empty fields included.
sdssplitlen(s, sep) ==
  IF s = <<>> THEN <<>>
  ELSE LET seps == {i \in 1..Len(s) : s[i] = sep}
           \* Where field k ends: at the k-th separator, or after s.
           end(k) == IF k > Cardinality(seps) THEN Len(s) + 1
                     ELSE CHOOSE i \in seps :
                            Cardinality({j \in seps : j <= i}) = k
       IN [k \in 1..(Cardinality(seps) + 1) |->
             SubSeq(s, IF k = 1 THEN 1 ELSE end(k - 1) + 1, end(k) - 1)]

SCRIPT_FLAG_EVAL_COMPAT_MODE == <<"c","o","m","p","a","t">>

\* scripts_flags_def: the flag names a header may give, each with the
\* flag it sets.
scripts_flags_def ==
  { <<"n","o","-","w","r","i","t","e","s">>,
    <<"a","l","l","o","w","-","o","o","m">>,
    <<"a","l","l","o","w","-","s","t","a","l","e">>,
    <<"n","o","-","c","l","u","s","t","e","r">>,
    <<"a","l","l","o","w","-","c","r","o","s","s","-","s","l","o","t","-",
      "k","e","y","s">> }

StrShebang == <<"#","!">>
StrFlagsEq == <<"f","l","a","g","s","=">>
StrLua == <<"l","u","a">>

\* The flags of the options parts[j..], or "err" at the first unknown
\* option or unknown flag.
RECURSIVE ShebangOptions(_, _, _)
ShebangOptions(parts, j, flags) ==
  IF j > Len(parts) THEN [ok |-> TRUE, flags |-> flags]
  ELSE IF HasPrefix(parts[j], StrFlagsEq)
  THEN LET names == sdssplitlen(SubSeq(parts[j], 7, Len(parts[j])), ",")
       IN IF \E jj \in 1..Len(names) : names[jj] \notin scripts_flags_def
          THEN [ok |-> FALSE, flags |-> {}]
          ELSE ShebangOptions(parts, j + 1,
                              flags \cup {names[jj] : jj \in 1..Len(names)})
  ELSE [ok |-> FALSE, flags |-> {}]

\* evalExtractShebangFlags that leaves the compat-mode flag set when the
\* body has a header.
evalExtractShebangFlags_KeepsCompat(body) ==
  IF HasPrefix(body, StrShebang)
  THEN LET shebang_end == IndexFrom(body, "\n", 1)
           parts == sdssplitargs(SubSeq(body, 1, shebang_end - 1))
           opts == ShebangOptions(parts, 2, {SCRIPT_FLAG_EVAL_COMPAT_MODE})
       IN IF shebang_end = 0
          THEN [rc |-> "C_ERR", engine |-> <<>>, flags |-> {}, shebang_len |-> 0]
          ELSE IF Len(parts) = 0 \/ ~opts.ok
          THEN [rc |-> "C_ERR", engine |-> <<>>, flags |-> {}, shebang_len |-> 0]
          ELSE [rc |-> "C_OK",
                engine |-> SubSeq(parts[1], 3, Len(parts[1])),
                flags |-> opts.flags,
                shebang_len |-> shebang_end - 1]
  ELSE [rc |-> "C_OK", engine |-> StrLua,
        flags |-> {SCRIPT_FLAG_EVAL_COMPAT_MODE}, shebang_len |-> 0]

\* evalExtractShebangFlags: [rc, engine, flags, shebang_len].
evalExtractShebangFlags(body) ==
  IF HasPrefix(body, StrShebang)
  THEN LET shebang_end == IndexFrom(body, "\n", 1)
           parts == sdssplitargs(SubSeq(body, 1, shebang_end - 1))
           opts == ShebangOptions(parts, 2, {})
       IN IF shebang_end = 0
          THEN [rc |-> "C_ERR", engine |-> <<>>, flags |-> {}, shebang_len |-> 0]
          ELSE IF Len(parts) = 0 \/ ~opts.ok
          THEN [rc |-> "C_ERR", engine |-> <<>>, flags |-> {}, shebang_len |-> 0]
          ELSE [rc |-> "C_OK",
                engine |-> SubSeq(parts[1], 3, Len(parts[1])),
                flags |-> opts.flags,
                shebang_len |-> shebang_end - 1]
  ELSE [rc |-> "C_OK", engine |-> StrLua,
        flags |-> {SCRIPT_FLAG_EVAL_COMPAT_MODE}, shebang_len |-> 0]

(***************************************************************************)
(* Lists (adlist) of nodes [id, value] and the scripts dictionary.         *)
(***************************************************************************)
NodeIds(l) == {l[i].id : i \in 1..Len(l)}

listAddNodeTail(l, id, value) == Append(l, [id |-> id, value |-> value])

listDelNode(l, id) == SelectSeq(l, LAMBDA n : n.id # id)

\* listMoveNodeTail leaving the node where it is.
listMoveNodeTail_Stays(l, id) == l

\* listUnlinkNode followed by listLinkNodeTail of the same node.
listMoveNodeTail(l, id) ==
  SelectSeq(l, LAMBDA n : n.id # id) \o SelectSeq(l, LAMBDA n : n.id = id)

\* What dictFind returns when no key matches.
NoEntry == <<>>

\* dictFind comparing the bytes of the keys as they are.
dictFind_Exact(d, key) == IF key \in DOMAIN d THEN key ELSE NoEntry

\* dictFind under shaScriptObjectDictType: the stored key that compares
\* equal to key, ignoring case.
dictFind(d, key) ==
  LET near == {k \in {key, LowerCase(key)} :
                 k \in DOMAIN d /\ dictSdsKeyCaseCompare(k, key)}
      hits == {k \in DOMAIN d : dictSdsKeyCaseCompare(k, key)}
  IN IF near # {} THEN CHOOSE k \in near : TRUE
     ELSE IF hits = {} THEN NoEntry ELSE CHOOSE k \in hits : TRUE

dictDelete(d, key) == [k \in (DOMAIN d) \ {key} |-> d[k]]

dictAdd(d, key, val) == (key :> val) @@ d

\* sdsAllocSize and getStringObjectSdsUsedMemory: the bytes of a string
\* with its header and terminator.
sdsAllocSize(s) == Len(s) + 2

(***************************************************************************)
(* The engines.  The registry maps a registered name to its descriptor;    *)
(* lookup ignores case (engineDictType).  The back-end compiler itself     *)
(* (luaL_loadbuffer) lives outside the files at hand: a code with an       *)
(* unbalanced ")" is a syntax error, any other code compiles.              *)
(***************************************************************************)
LUA_ENGINE_NAME == <<"L","U","A">>

NoEngine == <<>>

scriptingEngineManagerFind(engines, engine_name) ==
  LET hits == {n \in DOMAIN engines : dictSdsKeyCaseCompare(n, engine_name)}
  IN IF hits = {} THEN NoEngine ELSE CHOOSE n \in hits : TRUE

luaL_loadbuffer(code) == IndexFrom(code, ")", 1) = 0

\* zmalloc_size of a scriptingEngine, a luaEngineCtx, a HelloLangCtx and a
\* HelloProgram, in bytes of an LP64 build.
SizeofScriptingEngine == 96
SizeofLuaEngineCtx == 16
SizeofHelloLangCtx == 8
SizeofHelloProgram == 136

\* The module that owns the engine HELLO.
HELLO_ENGINE_NAME == <<"H","E","L","L","O">>
HelloModule == 1

\* strtok(code, " \n"): the maximal runs of characters that are neither
\* blank nor newline.
RECURSIVE strtok(_, _, _)
strtok(code, i, tok) ==
  IF i > Len(code) THEN (IF tok = <<>> THEN <<>> ELSE <<tok>>)
  ELSE IF code[i] \in {" ", "\n"}
  THEN (IF tok = <<>> THEN <<>> ELSE <<tok>>) \o strtok(code, i + 1, <<>>)
  ELSE strtok(code, i + 1, Append(tok, code[i]))

HelloFUNCTION == <<"F","U","N","C","T","I","O","N">>
HelloCONSTI == <<"C","O","N","S","T","I">>
HelloARGS == <<"A","R","G","S">>
HelloSLEEP == <<"S","L","E","E","P">>
HelloRETURN == <<"R","E","T","U","R","N">>

\* helloLangParseCode from token i on: in_func says that currentFunc is
\* not NULL, num_functions counts the functions declared.  The result is
\* 0 with the number of functions, -1 for a token that is no instruction;
\* aborted when a ValkeyModule_Assert fails or a parameter is missing.
RECURSIVE helloLangParseCode(_, _, _, _)
helloLangParseCode(tokens, i, in_func, num_functions) ==
  IF i > Len(tokens)
  THEN [ret |-> 0, aborted |-> FALSE, num_functions |-> num_functions]
  ELSE IF tokens[i] = HelloFUNCTION
  THEN IF in_func \/ i + 1 > Len(tokens)
       THEN [ret |-> -1, aborted |-> TRUE, num_functions |-> num_functions]
       ELSE helloLangParseCode(tokens, i + 2, TRUE, num_functions + 1)
  ELSE IF tokens[i] \in {HelloCONSTI, HelloARGS}
  THEN IF ~in_func \/ i + 1 > Len(tokens)
       THEN [ret |-> -1, aborted |-> TRUE, num_functions |-> num_functions]
       ELSE helloLangParseCode(tokens, i + 2, in_func, num_functions)
  ELSE IF tokens[i] = HelloSLEEP
  THEN IF ~in_func THEN [ret |-> -1, aborted |-> TRUE, num_functions |-> num_functions]
       ELSE helloLangParseCode(tokens, i + 1, in_func, num_functions)
  ELSE IF tokens[i] = HelloRETURN
  THEN IF ~in_func THEN [ret |-> -1, aborted |-> TRUE, num_functions |-> num_functions]
       ELSE helloLangParseCode(tokens, i + 1, FALSE, num_functions)
  ELSE [ret |-> -1, aborted |-> FALSE, num_functions |-> num_functions]

(***************************************************************************)
(* Engine descriptors live in a heap: heap[e] is the scriptingEngine at    *)
(* the address e,                                                          *)
(*   name, module : as registered (module NULL for a built-in engine)      *)
(*   module_ctx   : "NULL", or the state of the cached module context:     *)
(*                  "idle", or "set" between moduleScriptingEngineInit-    *)
(*                  Context and moduleFreeContext                          *)
(*   methods      : "lua" or "hello", the vtable                           *)
(*   program      : HelloLangCtx.program is allocated                      *)
(*   eval_lua     : luaEngineCtx.eval_lua, the address of the Lua state of  *)
(*                  EVAL; NULL for HELLO, which has none                    *)
(*   state        : "live"; after zfree "stale" (the bytes are still       *)
(*                  there) or "trap" (an access faults)                    *)
(* The methods count what they do in ncompile, ncall, nfree, nreset,       *)
(* nmeminfo, in nmodule when they are given a module context, and in       *)
(* nhandles the compiled functions they return; ret is                     *)
(* what the last method returned, dispatched the engines a method was      *)
(* dispatched on.  closed holds the addresses of the Lua states that       *)
(* lua_close destroyed; nunref counts the calls of lua_unref, and stale    *)
(* says that a function was freed whose Lua state was destroyed before.    *)
(***************************************************************************)
\* The Lua states that are allocated: those of the engines and those the
\* callbacks not yet run hold.
ContextsOf(callbacks) ==
  {callbacks[i].context : i \in 1..Len(callbacks)} \ {NULL}

LiveStates(w) ==
  ({w.heap[e].eval_lua : e \in DOMAIN w.heap} \ {NULL}) \cup
  ContextsOf(w.callbacks) \cup
  UNION {ContextsOf(w.jobs[i].engine_callbacks) : i \in 1..Len(w.jobs)}

\* lua_open: the address of a new Lua state, one that no allocated state
\* has; the address of a destroyed state is not taken again while it is
\* remembered in closed.
lua_open(w) ==
  CHOOSE i \in 1..(Cardinality(LiveStates(w) \cup w.closed) + 1) :
    i \notin LiveStates(w) \cup w.closed

engineSetupModuleCtx(w, e) ==
  IF w.heap[e].module = NULL THEN w
  ELSE [w EXCEPT !.nsetup = @ + 1,
                 !.nested = @ \/ w.heap[e].module_ctx # "idle",
                 !.heap[e].module_ctx = "set"]

engineTeardownModuleCtx(w, e) ==
  IF w.panic \/ w.heap[e].module = NULL THEN w
  ELSE [w EXCEPT !.nteardown = @ + 1,
                 !.nested = @ \/ w.heap[e].module_ctx # "set",
                 !.heap[e].module_ctx = "idle"]

\* A method of the engine at e was entered with the module context
\* module_ctx.
Entered(w, e, module_ctx) ==
  [w EXCEPT !.dispatched = @ \cup {e},
            !.nmodule = IF module_ctx = "NULL" THEN @ ELSE @ + 1]

\* luaEngineCompileCode and createHelloLangEngine for VMSE_EVAL: ret is
\* the number of compiled functions, or NULL when none is returned.
luaEngineCompileCode(w, e, code) ==
  [w EXCEPT !.ncompile = @ + 1,
            !.nhandles = @ + (IF luaL_loadbuffer(code) THEN 1 ELSE 0),
            !.ret = [functions |-> luaL_loadbuffer(code),
                     num_compiled_functions |->
                       IF luaL_loadbuffer(code) THEN 1 ELSE 0,
                     lua |-> w.heap[e].eval_lua]]

createHelloLangEngineParsed(w, e, parsed) ==
  [w EXCEPT !.ncompile = @ + 1,
            !.heap[e].program = TRUE,
            !.panic = @ \/ parsed.aborted,
            !.nhandles = @ + (IF parsed.ret = 0 THEN parsed.num_functions
                              ELSE 0),
            !.ret = [functions |-> parsed.ret = 0,
                     num_compiled_functions |->
                       IF parsed.ret = 0 THEN parsed.num_functions ELSE 0,
                     lua |-> NULL]]

createHelloLangEngine(w, e, code) ==
  createHelloLangEngineParsed(w, e, helloLangParseCode(strtok(code, 1, <<>>), 1, FALSE, 0))

compile_code(w, e, code) ==
  IF w.heap[e].methods = "lua" THEN luaEngineCompileCode(w, e, code)
  ELSE createHelloLangEngine(w, e, code)

\* An access to the engine at e faults.
Faults(w, e) == w.panic \/ w.heap[e].state = "trap"

scriptingEngineCallCompileCode(w, e, code) ==
  IF Faults(w, e)
  THEN [w EXCEPT !.panic = TRUE,
                 !.ret = [functions |-> FALSE, num_compiled_functions |-> 0,
                          lua |-> NULL]]
  ELSE engineTeardownModuleCtx(
         compile_code(Entered(engineSetupModuleCtx(w, e), e, w.heap[e].module_ctx),
                      e, code),
         e)

\* luaEngineFreeFunction of a function that the Lua state at script_lua
\* compiled: lua_unref when that state is the one of the engine.
luaEngineFreeFunction(w, e, script_lua) ==
  [w EXCEPT !.nfree = @ + 1,
            !.nunref = IF w.heap[e].eval_lua = script_lua THEN @ + 1 ELSE @,
            !.stale = @ \/ script_lua \in w.closed]

\* luaEngineFreeFunction and engineFreeFunction.
free_function(w, e, script_lua) ==
  IF w.heap[e].methods = "lua" THEN luaEngineFreeFunction(w, e, script_lua)
  ELSE [w EXCEPT !.nfree = @ + 1]

\* scriptingEngineCallFreeFunction in two parts: up to the method, and
\* the method with the tear-down after it.
scriptingEngineCallFreeFunctionSetup(w, e) ==
  IF Faults(w, e) THEN [w EXCEPT !.panic = TRUE]
  ELSE engineSetupModuleCtx([w EXCEPT !.dispatched = @ \cup {e}], e)

scriptingEngineCallFreeFunctionMethod(w, e, script_lua) ==
  IF w.panic THEN w
  ELSE engineTeardownModuleCtx(
         free_function(Entered(w, e, w.heap[e].module_ctx), e, script_lua), e)

scriptingEngineCallFreeFunction(w, e, script_lua) ==
  scriptingEngineCallFreeFunctionMethod(
    scriptingEngineCallFreeFunctionSetup(w, e), e, script_lua)

\* luaEngineFunctionCall and callHelloLangFunction.
call_function(w, e) == [w EXCEPT !.ncall = @ + 1]

scriptingEngineCallFunction(w, e) ==
  IF Faults(w, e) THEN [w EXCEPT !.panic = TRUE]
  ELSE engineTeardownModuleCtx(
         call_function(Entered(engineSetupModuleCtx(w, e), e, w.heap[e].module_ctx), e),
         e)

\* A reset that leaves nothing to tear down returns no callback.
NoCallback == [engineLazyEvalResetCallback |-> "NULL", context |-> NULL]

\* resetEvalContext: lua_close of the Lua state at context.
resetEvalContext(w, context) == [w EXCEPT !.closed = @ \cup {context}]

\* initializeLuaState(VMSE_EVAL): the engine gets a new Lua state.
initializeLuaState(w, e) == [w EXCEPT !.heap[e].eval_lua = lua_open(w)]

\* luaEngineResetEvalEnv: an asynchronous reset returns the callback that
\* closes the old Lua state, a synchronous reset closes it; the engine
\* gets a new state in both.
luaEngineResetEvalEnv(w, e, async) ==
  IF async
  THEN [initializeLuaState(w, e) EXCEPT
          !.nreset = @ + 1,
          !.ret = [engineLazyEvalResetCallback |-> "resetEvalContext",
                   context |-> w.heap[e].eval_lua]]
  ELSE [initializeLuaState(resetEvalContext(w, w.heap[e].eval_lua), e) EXCEPT
          !.nreset = @ + 1, !.ret = NoCallback]

\* luaEngineResetEvalEnv and helloResetEvalEnv, which returns NULL.
reset_eval_env(w, e, async) ==
  IF w.heap[e].methods = "lua" THEN luaEngineResetEvalEnv(w, e, async)
  ELSE [w EXCEPT !.nreset = @ + 1, !.ret = NoCallback]

scriptingEngineCallResetEvalEnvFunc(w, e, async) ==
  IF Faults(w, e) THEN [w EXCEPT !.panic = TRUE, !.ret = NoCallback]
  ELSE engineTeardownModuleCtx(
         reset_eval_env(Entered(engineSetupModuleCtx(w, e), e, w.heap[e].module_ctx),
                        e, async),
         e)

\* luaEngineGetMemoryInfo and engineGetMemoryInfo: ret is
\* engine_memory_overhead.
get_memory_info(w, e) ==
  [w EXCEPT !.nmeminfo = @ + 1,
            !.ret = IF w.heap[e].methods = "lua" THEN SizeofLuaEngineCtx
                    ELSE SizeofHelloLangCtx +
                         (IF w.heap[e].program THEN SizeofHelloProgram ELSE 0)]

scriptingEngineCallGetMemoryInfo(w, e) ==
  IF Faults(w, e) THEN [w EXCEPT !.panic = TRUE, !.ret = 0]
  ELSE engineTeardownModuleCtx(
         get_memory_info(Entered(engineSetupModuleCtx(w, e), e, w.heap[e].module_ctx), e),
         e)

\* n consecutive runs of a dispatch that leaves the state w1 when run
\* once in w: the engine is as after the first, the counts add up.
Times(w, w1, n) ==
  IF n = 0 THEN w
  ELSE [w1 EXCEPT !.nfree = w.nfree + n * (w1.nfree - w.nfree),
                  !.nunref = w.nunref + n * (w1.nunref - w.nunref),
                  !.nsetup = w.nsetup + n * (w1.nsetup - w.nsetup),
                  !.nteardown = w.nteardown + n * (w1.nteardown - w.nteardown),
                  !.nmodule = w.nmodule + n * (w1.nmodule - w.nmodule)]

\* The registration and removal of engines.  e is the address zmalloc
\* returns for the descriptor.
scriptingEngineManagerRegistered(w) ==
  [rc |-> "C_OK",
   w |-> [w EXCEPT !.total = @ + w.ret]]

\* scriptingEngineManagerRegister without the check for a registered name.
scriptingEngineManagerRegister_NoDuplicateCheck(w, engine_name, engine_module, methods, e) ==
  scriptingEngineManagerRegistered(
    [scriptingEngineCallGetMemoryInfo(
       [w EXCEPT
          !.engines = (engine_name :> e) @@ @,
          !.heap = (e :> [name |-> engine_name, module |-> engine_module,
                          module_ctx |-> IF engine_module # NULL
                                         THEN "idle" ELSE "NULL",
                          methods |-> methods, program |-> FALSE,
                          eval_lua |-> IF methods = "lua"
                                       THEN lua_open(w) ELSE NULL,
                          state |-> "live"]) @@ @],
       e)
     EXCEPT !.total = @ + SizeofScriptingEngine + sdsAllocSize(engine_name)])

scriptingEngineManagerRegister(w, engine_name, engine_module, methods, e) ==
  IF scriptingEngineManagerFind(w.engines, engine_name) # NoEngine
  THEN [rc |-> "C_ERR", w |-> w]
  ELSE scriptingEngineManagerRegistered(
         [scriptingEngineCallGetMemoryInfo(
            [w EXCEPT
               !.engines = (engine_name :> e) @@ @,
               !.heap = (e :> [name |-> engine_name, module |-> engine_module,
                               module_ctx |-> IF engine_module # NULL
                                              THEN "idle" ELSE "NULL",
                               methods |-> methods, program |-> FALSE,
                               eval_lua |-> IF methods = "lua"
                                            THEN lua_open(w) ELSE NULL,
                               state |-> "live"]) @@ @],
            e)
          EXCEPT !.total = @ + SizeofScriptingEngine + sdsAllocSize(engine_name)])

\* scriptingEngineManagerUnregister: after says what the freed bytes of
\* the descriptor do when they are accessed later.
scriptingEngineManagerUnlinked(w, name, e, after) ==
  [rc |-> "C_OK",
   w |-> [w EXCEPT
            !.total = @ - (SizeofScriptingEngine + sdsAllocSize(w.heap[e].name)
                           + w.ret),
            !.engines = [n \in DOMAIN @ \ {name} |-> @[n]],
            !.heap[e].state = after]]

scriptingEngineManagerUnregister(w, engine_name, after) ==
  IF scriptingEngineManagerFind(w.engines, engine_name) = NoEngine
  THEN [rc |-> "C_ERR", w |-> w]
  ELSE scriptingEngineManagerUnlinked(
         scriptingEngineCallGetMemoryInfo(
           w, w.engines[scriptingEngineManagerFind(w.engines, engine_name)]),
         scriptingEngineManagerFind(w.engines, engine_name),
         w.engines[scriptingEngineManagerFind(w.engines, engine_name)],
         after)

(***************************************************************************)
(* The cache.  The operations work on a record w that holds               *)
(*   scripts, lru, mem : evalCtx.scripts, .scripts_lru_list, .scripts_mem  *)
(*   evicted           : server.stat_evictedscripts                        *)
(*   engines           : engineMgr.engines                                 *)
(*   jobs              : the lazy-free jobs queued and not yet run         *)
(*   lazyfree_objects, lazyfreed_objects : the counters of lazyfree.c      *)
(*   ncompile, ncall, nfree, nreset : the back-end methods dispatched      *)
(*                       since the command began                           *)
(*   panic             : a serverAssert failed                             *)
(***************************************************************************)
\* The list nodes and compiled functions that are allocated: those of the
\* cache and those handed to jobs that did not run yet.
LiveNodes(w) ==
  NodeIds(w.lru) \cup
  UNION {NodeIds(w.jobs[i].scripts_lru_list) : i \in 1..Len(w.jobs)}

LiveFunctions(w) ==
  {w.scripts[k].script : k \in DOMAIN w.scripts} \cup
  UNION {{w.jobs[i].scripts[k].script : k \in DOMAIN w.jobs[i].scripts} :
         i \in 1..Len(w.jobs)}

\* An identifier no member of live holds.
Alloc(live) == CHOOSE i \in 1..(Cardinality(live) + 1) : i \notin live

\* The allocator may return any address that is free.  To keep states that
\* differ only in addresses apart from multiplying, an object that stores
\* a digest gets the address the first bytes of the digest spell, when
\* that address is free, and any free address otherwise.
HexValue == [c \in {HexCset[i] : i \in 1..16} |->
               (CHOOSE i \in 1..16 : HexCset[i] = c) - 1]

AddressHint(sha) ==
  IF Len(sha) >= 6 /\ \A i \in 1..6 : sha[i] \in DOMAIN HexValue
  THEN LRU_LIST_LENGTH + 2 +
       HexValue[sha[2]] + 16 * HexValue[sha[1]] + 256 * HexValue[sha[4]] +
       4096 * HexValue[sha[3]] + 65536 * HexValue[sha[6]] +
       1048576 * HexValue[sha[5]]
  ELSE 1

AllocFor(live, sha) ==
  IF AddressHint(sha) \notin live THEN AddressHint(sha) ELSE Alloc(live)

\* dictScriptDestructor: the engine frees the compiled function, the body
\* loses a reference.
dictScriptDestructor(w, es) ==
  scriptingEngineCallFreeFunction(w, es.engine, es.lua)

\* evalDeleteScript that takes only the digest off the memory counter.
evalDeleteUnlinked_DigestOnly(w, sha, de) ==
  IF de = NoEntry THEN [w EXCEPT !.panic = TRUE]
  ELSE dictScriptDestructor(
         [w EXCEPT !.mem = @ - sdsAllocSize(sha),
                   !.scripts = dictDelete(@, de)],
         w.scripts[de])

\* evalDeleteScript, with de what dictUnlink returned.
evalDeleteUnlinked(w, sha, de) ==
  IF de = NoEntry THEN [w EXCEPT !.panic = TRUE]
  ELSE dictScriptDestructor(
         [w EXCEPT
            !.mem = @ - (sdsAllocSize(sha) + sdsAllocSize(w.scripts[de].body)),
            !.scripts = dictDelete(@, de)],
         w.scripts[de])

evalDeleteScript(w, sha) == evalDeleteUnlinked(w, sha, dictFind(w.scripts, sha))

\* The eviction loop of scriptsLRUAdd: w1 is the state after
\* evalDeleteScript of the first node, ln that node.
RECURSIVE scriptsLRUEvict(_)
\* The eviction that does not count itself in stat_evictedscripts.
scriptsLRUEvicted_NoCount(w1, ln) ==
  IF w1.panic THEN w1
  ELSE scriptsLRUEvict([w1 EXCEPT !.lru = listDelNode(@, ln.id)])

scriptsLRUEvicted(w1, ln) ==
  IF w1.panic THEN w1
  ELSE scriptsLRUEvict([w1 EXCEPT !.lru = listDelNode(@, ln.id),
                                  !.evicted = @ + 1])

\* scriptsLRUEvict with the loop condition > in place of >=.
scriptsLRUEvict_OffByOne(w) ==
  IF w.panic \/ Len(w.lru) <= LRU_LIST_LENGTH THEN w
  ELSE scriptsLRUEvicted(evalDeleteScript(w, w.lru[1].value), w.lru[1])

\* scriptsLRUEvict evicting the last node of the list.
scriptsLRUEvict_Newest(w) ==
  IF w.panic \/ Len(w.lru) < LRU_LIST_LENGTH THEN w
  ELSE scriptsLRUEvicted(evalDeleteScript(w, w.lru[Len(w.lru)].value),
                         w.lru[Len(w.lru)])

scriptsLRUEvict(w) ==
  IF w.panic \/ Len(w.lru) < LRU_LIST_LENGTH THEN w
  ELSE scriptsLRUEvicted(evalDeleteScript(w, w.lru[1].value), w.lru[1])

\* The tail of scriptsLRUAdd: the node added, at address id.
scriptsLRUAppend(w, sha, id) ==
  [w |-> [w EXCEPT !.lru = listAddNodeTail(@, id, sha)], node |-> id]

scriptsLRUAddTail(w, sha) == scriptsLRUAppend(w, sha, AllocFor(LiveNodes(w), sha))

\* scriptsLRUAdd: [w, node].
scriptsLRUAdd(w, sha) == scriptsLRUAddTail(scriptsLRUEvict(w), sha)

\* A reply to the client: its kind and, for a bulk or an array, its payload.
ReplyOf(kind, data) == [kind |-> kind, data |-> data]

RegisterFailed(w, reply) ==
  [rc |-> "C_ERR", w |-> w, sha |-> NoEntry, reply |-> reply]

\* The end of evalRegisterNewScript: the entry es is added under sha.
evalRegisterAdd(w, body, sha, es) ==
  IF w.panic \/ dictFind(w.scripts, sha) # NoEntry
  THEN [rc |-> "C_ERR", w |-> [w EXCEPT !.panic = TRUE],
        sha |-> sha, reply |-> ReplyOf("none", <<>>)]
  ELSE [rc |-> "C_OK",
        w |-> [w EXCEPT !.scripts = dictAdd(@, sha, es),
                        !.mem = @ + sdsAllocSize(sha) + sdsAllocSize(body)],
        sha |-> sha, reply |-> ReplyOf("none", <<>>)]

\* evalRegisterNewScript after the compilation: fn is the compiled
\* function, add what scriptsLRUAdd returned (no node for SCRIPT LOAD).
evalRegisterCompiled(add, body, sha, engine, flags, fn, script_lua) ==
  evalRegisterAdd(add.w, body, sha,
                  [script |-> fn, lua |-> script_lua, engine |-> engine,
                   flags |-> flags, node |-> add.node, body |-> body])

\* The node of a new entry: only a script of EVAL enters the LRU list.
evalRegisterNode(w, is_script_load, sha) ==
  IF is_script_load THEN [w |-> w, node |-> NULL]
  ELSE scriptsLRUAdd(w, sha)

\* evalRegisterNewScript after scriptingEngineCallCompileCode left the
\* state wc: no function is an error, another number than one fails the
\* assertion.
evalRegisterCompiledCode(wc, w, body, is_script_load, sha, sb, engine) ==
  IF wc.panic THEN RegisterFailed(wc, ReplyOf("none", <<>>))
  ELSE IF ~wc.ret.functions
  THEN RegisterFailed(wc, ReplyOf("ERR compile", <<>>))
  ELSE IF wc.ret.num_compiled_functions # 1
  THEN RegisterFailed([wc EXCEPT !.panic = TRUE], ReplyOf("none", <<>>))
  ELSE evalRegisterCompiled(
         evalRegisterNode(wc, is_script_load, sha),
         body, sha, engine, sb.flags,
         AllocFor(LiveFunctions(w), sha), wc.ret.lua)

\* evalRegisterCompile that takes the LRU node before it compiles.
evalRegisterCompile_NodeFirst(w, body, is_script_load, sha, sb, engine) ==
  evalRegisterCompiledCode(
    scriptingEngineCallCompileCode(
      evalRegisterNode(w, is_script_load, sha).w, engine,
      SubSeq(body, sb.shebang_len + 1, Len(body))),
    w, body, TRUE, sha, sb, engine)

\* evalRegisterNewScript from the compilation on: sb is the parsed
\* header, engine the engine found.
evalRegisterCompile(w, body, is_script_load, sha, sb, engine) ==
  evalRegisterCompiledCode(
    scriptingEngineCallCompileCode(
      w, engine, SubSeq(body, sb.shebang_len + 1, Len(body))),
    w, body, is_script_load, sha, sb, engine)

\* evalRegisterNewScript from the header on.
evalRegisterParsed(w, body, is_script_load, sha, sb) ==
  IF sb.rc = "C_ERR" THEN RegisterFailed(w, ReplyOf("ERR shebang", <<>>))
  ELSE IF scriptingEngineManagerFind(w.engines, sb.engine) = NoEngine
  THEN RegisterFailed(w, ReplyOf("ERR engine", <<>>))
  ELSE evalRegisterCompile(
         w, body, is_script_load, sha, sb,
         w.engines[scriptingEngineManagerFind(w.engines, sb.engine)])

\* evalRegisterLookedUp without the promotion.
evalRegisterLookedUp_NoPromotion(w, body, is_script_load, sha, entry) ==
  IF entry # NoEntry
  THEN [rc |-> "C_OK", w |-> w, sha |-> sha, reply |-> ReplyOf("none", <<>>)]
  ELSE evalRegisterParsed(w, body, is_script_load, sha,
                          evalExtractShebangFlags(body))

\* evalRegisterLookedUp with a promotion that clears the node of the entry
\* and leaves the node in the list.
evalRegisterLookedUp_KeepsListNode(w, body, is_script_load, sha, entry) ==
  IF entry # NoEntry
  THEN [rc |-> "C_OK", w |-> [w EXCEPT !.scripts[entry].node = NULL],
        sha |-> sha, reply |-> ReplyOf("none", <<>>)]
  ELSE evalRegisterParsed(w, body, is_script_load, sha,
                          evalExtractShebangFlags(body))

\* The promotion of evalRegisterNewScript: entry is what dictFind found
\* for SCRIPT LOAD.
evalRegisterLookedUp(w, body, is_script_load, sha, entry) ==
  IF entry # NoEntry
  THEN [rc |-> "C_OK",
        w |-> IF w.scripts[entry].node # NULL
              THEN [w EXCEPT !.lru = listDelNode(@, w.scripts[entry].node),
                             !.scripts[entry].node = NULL]
              ELSE w,
        sha |-> sha, reply |-> ReplyOf("none", <<>>)]
  ELSE evalRegisterParsed(w, body, is_script_load, sha,
                          evalExtractShebangFlags(body))

evalRegisterHashed(w, body, is_script_load, sha) ==
  evalRegisterLookedUp(w, body, is_script_load, sha,
                       IF is_script_load THEN dictFind(w.scripts, sha)
                       ELSE NoEntry)

\* evalRegisterNewScript(c, body, &sha): is_script_load stands for
\* *sha == NULL, sha_in for *sha otherwise.  [rc, w, sha, reply].
evalRegisterNewScript(w, body, is_script_load, sha_in) ==
  evalRegisterHashed(w, body, is_script_load,
                     IF is_script_load THEN evalCalcScriptHash(FALSE, body)
                     ELSE sha_in)

\* evalGetCommandFlags, which the dispatcher runs before EVAL / EVALSHA:
\* cur_script is what it leaves in c->cur_script, verbatim says that the
\* command flags are returned as given, script_flags what they are
\* derived from otherwise.
CommandFlags(cur, verbatim, script_flags) ==
  [cur_script |-> cur, verbatim |-> verbatim, script_flags |-> script_flags]

evalGetCommandFlagsOf(cur, script_flags) ==
  CommandFlags(cur, SCRIPT_FLAG_EVAL_COMPAT_MODE \in script_flags,
               IF SCRIPT_FLAG_EVAL_COMPAT_MODE \in script_flags THEN {}
               ELSE script_flags)

\* evalGetCommandFlagsFound that does not read the flags of a cached entry.
evalGetCommandFlagsFound_IgnoresEntry(w, evalsha, arg, cur, sb) ==
  IF evalsha \/ sb.rc = "C_ERR" THEN CommandFlags(cur, TRUE, {})
  ELSE evalGetCommandFlagsOf(cur, sb.flags)

evalGetCommandFlagsFound(w, evalsha, arg, cur, sb) ==
  IF cur = NoEntry /\ (evalsha \/ sb.rc = "C_ERR") THEN CommandFlags(cur, TRUE, {})
  ELSE evalGetCommandFlagsOf(cur, IF cur # NoEntry THEN w.scripts[cur].flags
                                  ELSE sb.flags)

evalGetCommandFlags(w, evalsha, arg) ==
  IF evalsha /\ Len(arg) # SHA_LEN THEN CommandFlags(NoEntry, TRUE, {})
  ELSE evalGetCommandFlagsFound(
         w, evalsha, arg,
         dictFind(w.scripts, evalCalcScriptHash(evalsha, arg)),
         IF evalsha THEN [rc |-> "C_ERR", flags |-> {}]
         ELSE evalExtractShebangFlags(arg))

\* The end of evalGenericCommand: the node of the entry moves to the tail.
evalGenericRan(w, sha, entry, run) ==
  [w |-> IF ~w.panic /\ w.scripts[entry].node # NULL
         THEN [w EXCEPT !.lru = listMoveNodeTail(@, w.scripts[entry].node)]
         ELSE w,
   sha |-> sha,
   reply |-> ReplyOf(IF w.panic THEN "none"
                     ELSE IF run THEN "result" ELSE "ERR script", <<>>)]

\* evalGenericRan linking a node at the tail for an entry that has none.
evalGenericRan_LinksPinned(w, sha, entry, run) ==
  [w |-> IF w.scripts[entry].node # NULL
         THEN [w EXCEPT !.lru = listMoveNodeTail(@, w.scripts[entry].node)]
         ELSE [w EXCEPT
                 !.lru = listAddNodeTail(@, AllocFor(LiveNodes(w), sha), sha),
                 !.scripts[entry].node = AllocFor(LiveNodes(w), sha)],
   sha |-> sha,
   reply |-> ReplyOf(IF run THEN "result" ELSE "ERR script", <<>>)]

\* evalGenericRun linking a node at the tail for an entry that has none.
evalGenericRun_LinksPinned(w, sha, entry, prepare, run) ==
  IF entry = NoEntry
  THEN [w |-> [w EXCEPT !.panic = TRUE], sha |-> sha,
        reply |-> ReplyOf("none", <<>>)]
  ELSE IF ~prepare
  THEN [w |-> w, sha |-> sha, reply |-> ReplyOf("ERR prepare", <<>>)]
  ELSE evalGenericRan_LinksPinned(
         scriptingEngineCallFunction(w, w.scripts[entry].engine),
         sha, entry, run)

\* The run of evalGenericCommand: w is the state after the script was
\* registered, entry what dictFind finds then.  scriptPrepareForRun is
\* given the client of the engine of the entry.
evalGenericRun(w, sha, entry, prepare, run) ==
  IF entry = NoEntry
  THEN [w |-> [w EXCEPT !.panic = TRUE], sha |-> sha,
        reply |-> ReplyOf("none", <<>>)]
  ELSE IF Faults(w, w.scripts[entry].engine)
  THEN [w |-> [w EXCEPT !.panic = TRUE], sha |-> sha,
        reply |-> ReplyOf("none", <<>>)]
  ELSE IF ~prepare
  THEN [w |-> w, sha |-> sha, reply |-> ReplyOf("ERR prepare", <<>>)]
  ELSE evalGenericRan(
         scriptingEngineCallFunction(w, w.scripts[entry].engine),
         sha, entry, run)

evalGenericRegistered(reg, sha, prepare, run) ==
  IF reg.rc # "C_OK" \/ reg.w.panic
  THEN [w |-> reg.w, sha |-> sha, reply |-> reg.reply]
  ELSE evalGenericRun(reg.w, sha, dictFind(reg.w.scripts, sha), prepare, run)

\* evalGenericFound registering the body of EVAL whether cached or not.
evalGenericFound_Recompiles(w, arg, evalsha, sha, found, prepare, run) ==
  IF evalsha /\ found = NoEntry
  THEN [w |-> w, sha |-> sha, reply |-> ReplyOf("NOSCRIPT", <<>>)]
  ELSE evalGenericRegistered(
         IF ~evalsha
         THEN evalRegisterNewScript(w, arg, FALSE, sha)
         ELSE [rc |-> "C_OK", w |-> w, sha |-> sha,
               reply |-> ReplyOf("none", <<>>)],
         sha, prepare, run)

\* evalGenericFound without the no-such-script reply of EVALSHA.
evalGenericFound_CompilesOnMiss(w, arg, evalsha, sha, found, prepare, run) ==
  evalGenericRegistered(
    IF found = NoEntry
    THEN evalRegisterNewScript(w, arg, FALSE, sha)
    ELSE [rc |-> "C_OK", w |-> w, sha |-> sha, reply |-> ReplyOf("none", <<>>)],
    sha, prepare, run)

evalGenericFound(w, arg, evalsha, sha, found, prepare, run) ==
  IF evalsha /\ found = NoEntry
  THEN [w |-> w, sha |-> sha, reply |-> ReplyOf("NOSCRIPT", <<>>)]
  ELSE evalGenericRegistered(
         IF found = NoEntry
         THEN evalRegisterNewScript(w, arg, FALSE, sha)
         ELSE [rc |-> "C_OK", w |-> w, sha |-> sha,
               reply |-> ReplyOf("none", <<>>)],
         sha, prepare, run)

evalGenericHashed(w, arg, evalsha, sha, prepare, run) ==
  evalGenericFound(w, arg, evalsha, sha, dictFind(w.scripts, sha), prepare, run)

\* evalGenericCommand: numkeys is "ok" or the way the number of keys is
\* wrong, prepare whether scriptPrepareForRun accepts the run, run whether
\* the script ends without a runtime error.  [w, sha, reply].
evalGenericCommand(w, arg, evalsha, cur_script, numkeys, prepare, run) ==
  IF numkeys # "ok"
  THEN [w |-> w, sha |-> NoEntry, reply |-> ReplyOf("ERR numkeys", <<>>)]
  ELSE evalGenericHashed(w, arg, evalsha,
                         IF cur_script # NoEntry
                         THEN SubSeq(cur_script, 1, SHA_LEN)
                         ELSE evalCalcScriptHash(evalsha, arg),
                         prepare, run)

\* The number of entries of a cache map that each engine compiled.
EntriesOf(scripts) ==
  [e \in {scripts[k].engine : k \in DOMAIN scripts} |->
     Cardinality({k \in DOMAIN scripts : scripts[k].engine = e})]

\* The same number for each engine and Lua state: the pairs are
\* <<engine, Lua state of the compiled function>>, taken from pairs.
HandlesIn(scripts, pairs) ==
  IF Cardinality(pairs) <= 1
  THEN [p \in pairs |-> Cardinality(DOMAIN scripts)]
  ELSE [p \in {q \in pairs : \E k \in DOMAIN scripts :
                               /\ scripts[k].engine = q[1]
                               /\ scripts[k].lua = q[2]} |->
          Cardinality({k \in DOMAIN scripts :
                         scripts[k].engine = p[1] /\ scripts[k].lua = p[2]})]

HandlesOf(scripts) ==
  CHOOSE r \in {HandlesIn(scripts, pairs) :
                  pairs \in {{scripts[k].engine : k \in DOMAIN scripts} \X
                             {scripts[k].lua : k \in DOMAIN scripts}}} : TRUE

\* dictRelease of a cache map: the destructor of every entry runs; the
\* entries are taken pair by pair, left[p] of the pair p.
RECURSIVE dictRelease(_, _)
dictRelease(w, left) ==
  IF w.panic \/ DOMAIN left = {} THEN w
  ELSE LET p == CHOOSE x \in DOMAIN left : TRUE
       IN dictRelease(
            Times(w, scriptingEngineCallFreeFunction(w, p[1], p[2]), left[p]),
            [x \in DOMAIN left \ {p} |-> left[x]])

\* The callbacks of the engines run: each closes the Lua state it holds.
engineLazyEvalResetCallbacks(w, engine_callbacks) ==
  [w EXCEPT
     !.ncallback = @ + Cardinality({i \in 1..Len(engine_callbacks) :
                                      engine_callbacks[i] # NoCallback}),
     !.closed = @ \cup ContextsOf(engine_callbacks)]

\* freeEvalScripts: dictRelease runs the destructor of every entry,
\* listRelease frees the nodes, then the engines' callbacks run.
freeEvalScripts(w, scripts, engine_callbacks) ==
  engineLazyEvalResetCallbacks(
    CHOOSE r \in {dictRelease(w, left) : left \in {HandlesOf(scripts)}} : TRUE,
    engine_callbacks)

\* resetEngineEvalEnvCallback after scriptingEngineCallResetEvalEnvFunc:
\* an asynchronous reset adds the callback to the list.
resetEngineEvalEnvCallback(w, async) ==
  IF async THEN [w EXCEPT !.callbacks = Append(@, w.ret)] ELSE w

\* scriptingEngineManagerForEachEngine(resetEngineEvalEnvCallback, ..):
\* every engine resets its environment; an asynchronous reset returns the
\* callback that tears the old environment down.
RECURSIVE ResetEngines(_, _, _)
ResetEngines(w, names, async) ==
  IF w.panic \/ names = {} THEN w
  ELSE LET n == CHOOSE x \in names : TRUE
       IN ResetEngines(
            resetEngineEvalEnvCallback(
              scriptingEngineCallResetEvalEnvFunc(w, w.engines[n], async),
              async),
            names \ {n}, async)

\* freeEvalScriptsAsync that queues the job without counting its entries.
freeEvalScriptsAsync_NoCount(w, scripts, scripts_lru_list, engine_callbacks) ==
  IF Cardinality(DOMAIN scripts) > LAZYFREE_THRESHOLD
  THEN [w EXCEPT
          !.jobs = Append(@, [scripts |-> scripts,
                              scripts_lru_list |-> scripts_lru_list,
                              engine_callbacks |-> engine_callbacks])]
  ELSE freeEvalScripts(w, scripts, engine_callbacks)

\* freeEvalScriptsAsync.
freeEvalScriptsAsync(w, scripts, scripts_lru_list, engine_callbacks) ==
  IF Cardinality(DOMAIN scripts) > LAZYFREE_THRESHOLD
  THEN [w EXCEPT
          !.lazyfree_objects = @ + Cardinality(DOMAIN scripts),
          !.jobs = Append(@, [scripts |-> scripts,
                              scripts_lru_list |-> scripts_lru_list,
                              engine_callbacks |-> engine_callbacks])]
  ELSE freeEvalScripts(w, scripts, engine_callbacks)

\* evalRelease after the engines were reset asynchronously: the list of
\* callbacks goes with the cache.
evalReleaseAsync(wr, scripts, scripts_lru_list) ==
  freeEvalScriptsAsync([wr EXCEPT !.callbacks = <<>>],
                       scripts, scripts_lru_list, wr.callbacks)

\* evalRelease that resets the engines before it frees the scripts, in
\* both modes.
evalRelease_ResetFirst(w, async) ==
  IF async
  THEN evalReleaseAsync(ResetEngines(w, DOMAIN w.engines, TRUE), w.scripts, w.lru)
  ELSE freeEvalScripts(ResetEngines(w, DOMAIN w.engines, FALSE), w.scripts, <<>>)

\* evalRelease.
evalRelease(w, async) ==
  IF async
  THEN evalReleaseAsync(ResetEngines(w, DOMAIN w.engines, TRUE), w.scripts, w.lru)
  ELSE ResetEngines(freeEvalScripts(w, w.scripts, <<>>), DOMAIN w.engines, FALSE)

\* evalInit that creates no new dictionary.
evalInit_KeepsScripts(w) == [w EXCEPT !.lru = <<>>, !.mem = 0]

\* evalInit that creates no new LRU list.
evalInit_KeepsList(w) == [w EXCEPT !.scripts = <<>>, !.mem = 0]

\* evalInit.
evalInit(w) == [w EXCEPT !.scripts = <<>>, !.lru = <<>>, !.mem = 0]

\* evalReset.
evalReset(w, async) == evalInit(evalRelease(w, async))

\* lazyFreeEvalScripts, run by the background thread on the oldest job.
lazyFreeEvalScriptsJob(w, job) ==
  [freeEvalScripts(w, job.scripts, job.engine_callbacks) EXCEPT
     !.lazyfree_objects = @ - Cardinality(DOMAIN job.scripts),
     !.lazyfreed_objects = @ + Cardinality(DOMAIN job.scripts)]

lazyFreeEvalScripts(w) ==
  lazyFreeEvalScriptsJob([w EXCEPT !.jobs = Tail(@)], Head(w.jobs))

(***************************************************************************)
(* The debugger (src/src/lua/debug_lua.c).  The operations work on a       *)
(* record d: ldb holds the fields of struct ldbState, wrote the replies    *)
(* the operation wrote and the connection of each, raised the error it     *)
(* raised in the back-end, ret what ldbRepl returned or "read" when it     *)
(* waits in connRead, argv the command of the REPL it ran, entered         *)
(* whether the hook entered the REPL.  A loop over many rounds is written  *)
(* as its first half followed by its second half.                          *)
(***************************************************************************)
\* libc atoi: blanks, a sign, then the digits up to the first character
\* that is none.
DigitValue == [c \in {Digits[i] : i \in 1..10} |->
                 (CHOOSE i \in 1..10 : Digits[i] = c) - 1]

RECURSIVE atoiDigits(_, _, _)
atoiDigits(s, i, acc) ==
  IF i > Len(s) \/ s[i] \notin DOMAIN DigitValue THEN acc
  ELSE atoiDigits(s, i + 1, acc * 10 + DigitValue[s[i]])

RECURSIVE atoiFrom(_, _)
atoiFrom(s, i) ==
  IF i > Len(s) THEN 0
  ELSE IF s[i] = " " THEN atoiFrom(s, i + 1)
  ELSE IF s[i] = "-" THEN 0 - atoiDigits(s, i + 1, 0)
  ELSE IF s[i] = "+" THEN atoiDigits(s, i + 1, 0)
  ELSE atoiDigits(s, i, 0)

atoi(s) == atoiFrom(s, 1)

\* string2l: the whole string is the decimal form of a long, with a
\* minus sign for a negative one and no superfluous zero.  [ok, value].
string2l(s) ==
  LET digits == IF s # <<>> /\ s[1] = "-" THEN Tail(s) ELSE s
      wellformed ==
        /\ digits # <<>>
        /\ \A i \in 1..Len(digits) : digits[i] \in DOMAIN DigitValue
        /\ digits[1] = "0" => (Len(digits) = 1 /\ digits = s)
  IN IF wellformed THEN [ok |-> TRUE, value |-> atoi(s)]
     ELSE [ok |-> FALSE, value |-> 0]

\* strcasecmp(a, b) == 0.
strcasecmp0(a, b) == Len(a) = Len(b) /\ strcaseeq(a, b)

\* struct ldbState after the program was loaded and ldbInit ran: the
\* fields ldbInit does not set are those of a zeroed static object.
ldbInit ==
  [conn |-> NULL, active |-> FALSE, forked |-> FALSE, logs |-> <<>>,
   children |-> <<>>,
   bp |-> [j \in 0..(LDB_BREAKPOINTS_MAX - 1) |-> 0], bpcount |-> 0,
   step |-> 0, luabp |-> 0, src |-> <<>>, lines |-> 0, currentline |-> 0,
   cbuf |-> <<>>, maxlen |-> 0, maxlen_hint_sent |-> 0]

\* The record an operation of the debugger starts from.
DebugWorld(l) ==
  [ldb |-> l, wrote |-> <<>>, raised |-> "none", ret |-> "none",
   argv |-> <<>>, entered |-> FALSE]

\* A log line: its text, or the format it was printed with, and the
\* number printed in it (a line number, a count, or the length of a dump);
\* tail is what was catenated to the line after it was cut.
LogEntry(text, n) == [text |-> text, n |-> n, tail |-> ""]

\* ldbLog.
ldbLog(d, entry) == [d EXCEPT !.ldb.logs = Append(@, entry)]

\* sdsrange(s, start, end) for start and end that are not negative: the
\* length of what is left of a string of len bytes.
sdsrange(len, start, end) ==
  IF len = 0 \/ start > end \/ start >= len THEN 0
  ELSE (IF end >= len THEN len - 1 ELSE end) - start + 1

\* What ldbLogWithMaxLen puts after a line it cut, and the line it logs
\* after the first one it cut.
Ellipsis == " ..."
MaxlenHint ==
  "<hint> The above reply was trimmed. Use 'maxlen 0' to disable trimming."

\* ldbLogWithMaxLen that cuts no line.
ldbLogWithMaxLen_NoTrim(d, entry) == ldbLog(d, entry)

\* ldbLogWithMaxLen that logs the hint with every line it cut.
ldbLogWithMaxLen_HintAlways(d, entry) ==
  IF d.ldb.maxlen # 0 /\ entry.n > d.ldb.maxlen
  THEN ldbLog(ldbLog([d EXCEPT !.ldb.maxlen_hint_sent = 1],
                     [entry EXCEPT !.n = d.ldb.maxlen + Len(Ellipsis),
                                   !.tail = Ellipsis]),
              LogEntry(MaxlenHint, 0))
  ELSE ldbLog(d, entry)

\* ldbLogWithMaxLen, for an entry of n bytes.
ldbLogWithMaxLen(d, entry) ==
  LET trimmed == d.ldb.maxlen # 0 /\ entry.n > d.ldb.maxlen
      logged == ldbLog(d, IF trimmed
                          THEN [entry EXCEPT
                                  !.n = sdsrange(entry.n, 0, d.ldb.maxlen - 1)
                                        + Len(Ellipsis),
                                  !.tail = Ellipsis]
                          ELSE entry)
  IN IF trimmed /\ d.ldb.maxlen_hint_sent = 0
     THEN ldbLog([logged EXCEPT !.ldb.maxlen_hint_sent = 1],
                 LogEntry(MaxlenHint, 0))
     ELSE logged

\* ldbSendLogs: the pending lines go to ldb.conn as one reply.
ldbSendLogs(d) ==
  [d EXCEPT !.wrote = Append(@, [conn |-> d.ldb.conn, lines |-> d.ldb.logs]),
            !.ldb.logs = <<>>]

\* ldbEnable: the debugger as SCRIPT DEBUG YES|SYNC of the client with
\* connection conn leaves it.
ldbEnableState(l, conn) ==
  [l EXCEPT !.logs = <<>>, !.conn = conn, !.step = 1, !.bpcount = 0,
            !.luabp = 0, !.cbuf = <<>>, !.maxlen = LDB_MAX_LEN_DEFAULT,
            !.maxlen_hint_sent = 0]

\* The lines of the script: the body without the \n and \r at its end,
\* split at \n.
RECURSIVE sdstrimTail(_)
sdstrimTail(s) ==
  IF s # <<>> /\ s[Len(s)] \in {"\n", "\r"}
  THEN sdstrimTail(SubSeq(s, 1, Len(s) - 1))
  ELSE s

\* ldbStartSession that does not split the body into lines.
ldbStartSessionSetup_NoSplit(l, body) ==
  [l EXCEPT !.active = TRUE, !.src = <<body>>, !.lines = 1]

\* ldbStartSession after the fork, in the process that goes on.
ldbStartSessionSetup(l, body) ==
  [l EXCEPT !.active = TRUE,
            !.src = sdssplitlen(sdstrimTail(body), "\n"),
            !.lines = Len(sdssplitlen(sdstrimTail(body), "\n"))]

\* ldbEndSession that logs the end marker after it sent the logs.
ldbEndSessionLogs_MarkerLate(d) ==
  ldbLog(ldbSendLogs(d), LogEntry("<endsession>", 0))

\* ldbEndSession up to the exit of a forked child.
ldbEndSessionLogs(d) == ldbSendLogs(ldbLog(d, LogEntry("<endsession>", 0)))

\* ldbEndSession of a synchronous session: the cleanup.
ldbEndSessionCleanup(l) ==
  [l EXCEPT !.src = <<>>, !.lines = 0, !.active = FALSE]

\* ldbIsBreakpoint.
ldbIsBreakpoint(l, line) ==
  \E j \in 0..(l.bpcount - 1) : l.bp[j] = line

\* ldbAddBreakpoint.  [ldb, ret].
ldbAddBreakpoint(l, line) ==
  IF line <= 0 \/ line > l.lines THEN [ldb |-> l, ret |-> 0]
  ELSE IF ~ldbIsBreakpoint(l, line) /\ l.bpcount # LDB_BREAKPOINTS_MAX
  THEN [ldb |-> [l EXCEPT !.bp[l.bpcount] = line, !.bpcount = @ + 1],
        ret |-> 1]
  ELSE [ldb |-> l, ret |-> 0]

\* The byte b of the int v, the least significant first.
ByteOf(v, b) == (v \div (ByteValues ^ b)) % ByteValues

\* The byte at offset o of an array of int.
ByteAt(a, o) == ByteOf(a[o \div SizeofInt], o % SizeofInt)

\* memmove(dst, src, n) within an array of int, dst and src offsets in
\* bytes: the n bytes at src are copied to dst.
memmove(a, dst, src, n) ==
  [k \in DOMAIN a |->
     LET byte(b) ==
           LET o == SizeofInt * k + b
           IN IF dst <= o /\ o < dst + n THEN ByteAt(a, o - dst + src)
              ELSE ByteAt(a, o)
     IN byte(0) +
        ByteValues * (byte(1) + ByteValues * (byte(2) + ByteValues * byte(3)))]

\* ldbDelBreakpoint.  [ldb, ret].
ldbDelBreakpoint(l, line) ==
  IF ~ldbIsBreakpoint(l, line) THEN [ldb |-> l, ret |-> 0]
  ELSE LET j == CHOOSE x \in 0..(l.bpcount - 1) :
                  /\ l.bp[x] = line
                  /\ \A y \in 0..(x - 1) : l.bp[y] # line
       IN [ldb |-> [l EXCEPT
                      !.bpcount = @ - 1,
                      !.bp = memmove(@, SizeofInt * j, SizeofInt * (j + 1),
                                     l.bpcount - 1 - j)],
           ret |-> 1]

\* ldbLogSourceLine.
ldbLogSourceLine(d, lnum) ==
  LET bp == ldbIsBreakpoint(d.ldb, lnum)
      current == d.ldb.currentline = lnum
  IN ldbLog(d, LogEntry(IF current /\ bp THEN "->#"
                        ELSE IF current THEN "-> "
                        ELSE IF bp THEN "  #"
                        ELSE "   ", lnum))

\* ldbList: of the lines 1 .. ldb.lines, those at most context lines away
\* from around are logged, all of them if around is 0.  The loop goes
\* over the lines lo .. hi, the only ones that can be logged.
RECURSIVE ldbListFrom(_, _, _)
ldbListFrom(d, lo, hi) ==
  IF lo > hi THEN d
  ELSE IF lo = hi THEN ldbLogSourceLine(d, lo)
  ELSE CHOOSE r \in {ldbListFrom(half, ((lo + hi) \div 2) + 1, hi) :
                       half \in {ldbListFrom(d, lo, (lo + hi) \div 2)}} : TRUE

ldbList(d, around, context) ==
  IF around = 0 THEN ldbListFrom(d, 1, d.ldb.lines)
  ELSE ldbListFrom(d,
                   IF around - context > 1 THEN around - context ELSE 1,
                   IF around + context < d.ldb.lines THEN around + context
                   ELSE d.ldb.lines)

\* ldbBreak without the test of the room left in the array.
ldbBreakLine_NoCapacity(d, line) ==
  IF line = 0
  THEN ldbLog([d EXCEPT !.ldb.bpcount = 0],
              LogEntry("All breakpoints removed.", 0))
  ELSE IF line > 0
  THEN IF ldbAddBreakpoint(d.ldb, line).ret # 0
       THEN ldbList([d EXCEPT !.ldb = ldbAddBreakpoint(d.ldb, line).ldb],
                    line, 1)
       ELSE ldbLog(d, LogEntry("Wrong line number.", 0))
  ELSE IF ldbDelBreakpoint(d.ldb, 0 - line).ret # 0
       THEN ldbLog([d EXCEPT !.ldb = ldbDelBreakpoint(d.ldb, 0 - line).ldb],
                   LogEntry("Breakpoint removed.", 0))
       ELSE ldbLog(d, LogEntry("No breakpoint in the specified line.", 0))

\* ldbBreak with arguments: argument j of argv and those after it.
ldbBreakLine(d, line) ==
  IF line = 0
  THEN ldbLog([d EXCEPT !.ldb.bpcount = 0],
              LogEntry("All breakpoints removed.", 0))
  ELSE IF line > 0
  THEN IF d.ldb.bpcount = LDB_BREAKPOINTS_MAX
       THEN ldbLog(d, LogEntry("Too many breakpoints set.", 0))
       ELSE IF ldbAddBreakpoint(d.ldb, line).ret # 0
       THEN ldbList([d EXCEPT !.ldb = ldbAddBreakpoint(d.ldb, line).ldb],
                    line, 1)
       ELSE ldbLog(d, LogEntry("Wrong line number.", 0))
  ELSE IF ldbDelBreakpoint(d.ldb, 0 - line).ret # 0
       THEN ldbLog([d EXCEPT !.ldb = ldbDelBreakpoint(d.ldb, 0 - line).ldb],
                   LogEntry("Breakpoint removed.", 0))
       ELSE ldbLog(d, LogEntry("No breakpoint in the specified line.", 0))

ldbBreakArg(d, arg) ==
  IF ~string2l(arg).ok
  THEN ldbLog(d, LogEntry("Invalid argument:", 0))
  ELSE ldbBreakLine(d, string2l(arg).value)

\* The loop of ldbBreak over the arguments lo .. hi of argv, one after
\* the other: the first half of them, then the second.
RECURSIVE ldbBreakArgs(_, _, _, _)
ldbBreakArgs(d, argv, lo, hi) ==
  IF lo > hi THEN d
  ELSE IF lo = hi THEN ldbBreakArg(d, argv[lo])
  ELSE CHOOSE r \in {ldbBreakArgs(half, argv, ((lo + hi) \div 2) + 1, hi) :
                       half \in {ldbBreakArgs(d, argv, lo, (lo + hi) \div 2)}} :
         TRUE

\* ldbBreak without argument: the breakpoints at the positions lo .. hi,
\* one after the other: the first half of them, then the second.
RECURSIVE ldbBreakShow(_, _, _)
ldbBreakShow(d, lo, hi) ==
  IF lo > hi THEN d
  ELSE IF lo = hi THEN ldbLogSourceLine(d, d.ldb.bp[lo])
  ELSE CHOOSE r \in {ldbBreakShow(half, ((lo + hi) \div 2) + 1, hi) :
                       half \in {ldbBreakShow(d, lo, (lo + hi) \div 2)}} : TRUE

\* ldbBreak.
ldbBreak(d, argv) ==
  IF Len(argv) = 1
  THEN IF d.ldb.bpcount = 0
       THEN ldbLog(d, LogEntry("No breakpoints set. Use 'b <line>' to add one.", 0))
       ELSE ldbBreakShow(
              ldbLog(d, LogEntry("breakpoints set:", d.ldb.bpcount)),
              0, d.ldb.bpcount - 1)
  ELSE ldbBreakArgs(d, argv, 2, Len(argv))

\* ldbMaxlen that takes every limit as it is asked.
ldbMaxlenSet_NoClamp(l, argv) ==
  IF Len(argv) = 2
  THEN [l EXCEPT !.maxlen_hint_sent = 1, !.maxlen = atoi(argv[2])]
  ELSE l

\* ldbMaxlen.
ldbMaxlenSet(l, argv) ==
  IF Len(argv) = 2
  THEN [l EXCEPT !.maxlen_hint_sent = 1,
                 !.maxlen = IF atoi(argv[2]) # 0 /\ atoi(argv[2]) <= 60
                            THEN 60 ELSE atoi(argv[2])]
  ELSE l

ldbMaxlen(d, argv) ==
  LET l == ldbMaxlenSet(d.ldb, argv)
  IN ldbLog([d EXCEPT !.ldb = l],
            IF l.maxlen # 0
            THEN LogEntry("<value> replies are truncated at bytes.", l.maxlen)
            ELSE LogEntry("<value> replies are unlimited.", 0))

\* What the back-end answers when the debugger asks it: the lengths of
\* the values it dumps, whether it raises an error, the lines of the
\* frames of the script on its stack, whether it has a stack (room on
\* it), and whether the code it ran called server.breakpoint().
BackEnd(values, error, frames, stack, breakpoint) ==
  [values |-> values, error |-> error, frames |-> frames, stack |-> stack,
   breakpoint |-> breakpoint]

\* luaServerBreakpointCommand (src/src/lua/engine_lua.c).
luaServerBreakpointCommand(l) ==
  IF l.active THEN [l EXCEPT !.luabp = 1] ELSE l

\* ldbLogStackValue for the values from position i on.
RECURSIVE ldbLogStackValues(_, _, _, _)
ldbLogStackValues(d, prefix, values, i) ==
  IF i > Len(values) THEN d
  ELSE ldbLogStackValues(ldbLogWithMaxLen(d, LogEntry(prefix, values[i])),
                         prefix, values, i + 1)

\* ldbEval.
ldbEval(d, be) ==
  LET ran == IF be.breakpoint
             THEN [d EXCEPT !.ldb = luaServerBreakpointCommand(@)]
             ELSE d
  IN IF be.error \/ be.values = <<>>
     THEN ldbLog(ran, LogEntry("<error>", 0))
     ELSE ldbLogWithMaxLen(ran, LogEntry("<retval>", be.values[1]))

\* ldbServer.
ldbServer(d, be) ==
  IF ~be.stack
  THEN ldbLogWithMaxLen(d, LogEntry("<reply> max lua stack reached", 29))
  ELSE [(IF be.values = <<>> THEN ldbLog(d, LogEntry("<redis>", 0))
         ELSE ldbLogWithMaxLen(ldbLog(d, LogEntry("<redis>", 0)),
                               LogEntry("<reply>", be.values[1])))
        EXCEPT !.ldb.step = 0]

\* ldbTrace.
RECURSIVE ldbTraceFrames(_, _, _)
ldbTraceFrames(d, frames, level) ==
  IF level > Len(frames) THEN d
  ELSE ldbTraceFrames(
         ldbLogSourceLine(ldbLog(d, LogEntry(IF level = 1 THEN "In" ELSE "From", 0)),
                          frames[level]),
         frames, level + 1)

ldbTrace(d, be) ==
  IF ~be.stack
  THEN ldbLog(d, LogEntry("<error> Can't retrieve Lua stack.", 0))
  ELSE ldbTraceFrames(d, be.frames, 1)

\* ldbPrint and ldbPrintAll.
ldbPrint(d, be) ==
  IF be.values = <<>> THEN ldbLog(d, LogEntry("No such variable.", 0))
  ELSE ldbLogWithMaxLen(d, LogEntry("<value>", be.values[1]))

ldbPrintAll(d, be) ==
  IF be.values = <<>> \/ ~be.stack
  THEN ldbLog(d, LogEntry("No local variables in the current context.", 0))
  ELSE ldbLogStackValues(d, "<value> name =", be.values, 1)

\* The position of \r\n in s at or after position i, 0 if none (strstr).
RECURSIVE CrLfFrom(_, _)
CrLfFrom(s, i) ==
  IF i >= Len(s) THEN 0
  ELSE IF s[i] = "\r" /\ s[i + 1] = "\n" THEN i
  ELSE CrLfFrom(s, i + 1)

\* What ldbReplParseCommand returns: the arguments (none for NULL) and
\* whether it set the error.
Parsed(argv, err) == [argv |-> argv, err |-> err]

\* One round of the loop of ldbReplParseCommand, for the bulk at p: the
\* argument and the position after it, or position 0 when the loop is
\* left for keep_reading or protoerr.
Bulk(argv, err, p) == [argv |-> argv, err |-> err, p |-> p]

ldbReplParseBulk(copy, p) ==
  IF p > Len(copy) THEN Bulk(<<>>, FALSE, 0)
  ELSE IF copy[p] # "$" THEN Bulk(<<>>, TRUE, 0)
  ELSE IF CrLfFrom(copy, p) = 0 THEN Bulk(<<>>, FALSE, 0)
  ELSE LET q == CrLfFrom(copy, p)
           slen == atoi(SubSeq(copy, p + 1, q - 1))
           arg == q + 2
       IN IF slen <= 0 \/ slen > 1024 THEN Bulk(<<>>, TRUE, 0)
          ELSE IF (arg - 1) + slen + 2 > Len(copy) THEN Bulk(<<>>, FALSE, 0)
          ELSE IF copy[arg + slen] # "\r" \/ copy[arg + slen + 1] # "\n"
          THEN Bulk(<<>>, TRUE, 0)
          ELSE Bulk(<<SubSeq(copy, arg, arg + slen - 1)>>, FALSE,
                    arg + slen + 2)

\* The rounds after the rounds that left: none if those left the loop.
ldbReplParseMore(left, right) ==
  IF right.p = 0 THEN right
  ELSE Bulk(left.argv \o right.argv, FALSE, right.p)

\* n rounds of the loop from the bulk at p on, one after the other: the
\* first half of them, then the second.
RECURSIVE ldbReplParseArgs(_, _, _)
ldbReplParseArgs(copy, p, n) ==
  IF n = 1 THEN ldbReplParseBulk(copy, p)
  ELSE CHOOSE r \in
         {IF left.p = 0 THEN left
          ELSE ldbReplParseMore(
                 left, ldbReplParseArgs(copy, left.p, n - (n \div 2))) :
            left \in {ldbReplParseArgs(copy, p, n \div 2)}} : TRUE

\* ldbReplParseCommand.
ldbReplParseCommand(cbuf) ==
  IF cbuf = <<>> THEN Parsed(<<>>, FALSE)
  ELSE IF IndexFrom(cbuf, "*", 1) = 0 THEN Parsed(<<>>, TRUE)
  ELSE LET p == IndexFrom(cbuf, "*", 1)
           q == CrLfFrom(cbuf, p)
           argc == atoi(SubSeq(cbuf, p + 1, q - 1))
       IN IF q = 0 THEN Parsed(<<>>, FALSE)
          ELSE IF argc <= 0 \/ argc > 1024 THEN Parsed(<<>>, TRUE)
          ELSE Parsed(ldbReplParseArgs(cbuf, q + 2, argc).argv,
                      ldbReplParseArgs(cbuf, q + 2, argc).err)

\* The names of the commands of the REPL.
CmdHelp == <<"h","e","l","p">>
CmdStep == <<"s","t","e","p">>
CmdNext == <<"n","e","x","t">>
CmdContinue == <<"c","o","n","t","i","n","u","e">>
CmdTrace == <<"t","r","a","c","e">>
CmdMaxlen == <<"m","a","x","l","e","n">>
CmdBreak == <<"b","r","e","a","k">>
CmdEval == <<"e","v","a","l">>
CmdAbort == <<"a","b","o","r","t">>
CmdRedis == <<"r","e","d","i","s">>
CmdValkey == <<"v","a","l","k","e","y">>
SERVER_API_NAME == <<"s","e","r","v","e","r">>
CmdPrint == <<"p","r","i","n","t">>
CmdList == <<"l","i","s","t">>
CmdWhole == <<"w","h","o","l","e">>

\* !strcasecmp(arg, "x") || !strcasecmp(arg, "xyz").
IsCmd(arg, name) ==
  strcasecmp0(arg, <<name[1]>>) \/ strcasecmp0(arg, name)

\* The lines of the help of the REPL.
LdbHelpText ==
  <<"Lua debugger help:",
    "[h]elp               Show this help.",
    "[s]tep               Run current line and stop again.",
    "[n]ext               Alias for step.",
    "[c]ontinue           Run till next breakpoint.",
    "[l]ist               List source code around current line.",
    "[l]ist [line]        List source code around [line].",
    "                     line = 0 means: current position.",
    "[l]ist [line] [ctx]  In this form [ctx] specifies how many lines",
    "                     to show before/after [line].",
    "[w]hole              List all source code. Alias for 'list 1 1000000'.",
    "[p]rint              Show all the local variables.",
    "[p]rint <var>        Show the value of the specified variable.",
    "                     Can also show global vars KEYS and ARGV.",
    "[b]reak              Show all breakpoints.",
    "[b]reak <line>       Add a breakpoint to the specified line.",
    "[b]reak -<line>      Remove breakpoint from the specified line.",
    "[b]reak 0            Remove all breakpoints.",
    "[t]race              Show a backtrace.",
    "[e]val <code>        Execute some Lua code (in a different callframe).",
    "[v]alkey <cmd>       Execute a command.",
    "[m]axlen [len]       Trim logged replies and Lua var dumps to len.",
    "                     Specifying zero as <len> means unlimited.",
    "[a]bort              Stop the execution of the script. In sync",
    "                     mode dataset changes will be retained.",
    "",
    "Debugger functions you can call from Lua scripts:",
    "server.debug()       Produce logs in the debugger console.",
    "server.breakpoint()  Stop execution like if there was a breakpoint in the",
    "                     next line of code.">>

\* ldbRepl logs the lines j, j + 1, ... of the help of the REPL.
ldbHelp(d, j) ==
  [d EXCEPT !.ldb.logs =
     @ \o [k \in 1..(LdbHelpLines + 1 - j) |->
             LogEntry(LdbHelpText[j + k - 1], 0)]]

\* The REPL goes on with the next request, returns to the back-end, or
\* raises an error in the back-end (luaError).
ReplReads(d) == [d EXCEPT !.ret = "read"]
ReplReturns(d, ret) == [d EXCEPT !.ret = ret]
ReplRaises(d, error) == [d EXCEPT !.ret = "raised", !.raised = error]

\* ldbRepl with a step that does not set the step mode.
ldbReplCommand_StepRuns(d, argv, be) ==
  IF IsCmd(argv[1], CmdStep) \/ IsCmd(argv[1], CmdNext) \/
     IsCmd(argv[1], CmdContinue)
  THEN ReplReturns(d, "C_OK")
  ELSE IF IsCmd(argv[1], CmdAbort)
  THEN ReplRaises(d, "script aborted for user request")
  ELSE ReplReads(ldbSendLogs(
         ldbLog(d, LogEntry("<error> Unknown Lua debugger command or wrong number of arguments.", 0))))

\* ldbRepl: the command argv, be what the back-end answers.
ldbReplCommand(d, argv, be) ==
  IF IsCmd(argv[1], CmdHelp)
  THEN ReplReads(ldbSendLogs(ldbHelp(d, 1)))
  ELSE IF IsCmd(argv[1], CmdStep) \/ IsCmd(argv[1], CmdNext)
  THEN ReplReturns([d EXCEPT !.ldb.step = 1], "C_OK")
  ELSE IF IsCmd(argv[1], CmdContinue)
  THEN ReplReturns(d, "C_OK")
  ELSE IF IsCmd(argv[1], CmdTrace)
  THEN ReplReads(ldbSendLogs(ldbTrace(d, be)))
  ELSE IF IsCmd(argv[1], CmdMaxlen)
  THEN ReplReads(ldbSendLogs(ldbMaxlen(d, argv)))
  ELSE IF IsCmd(argv[1], CmdBreak)
  THEN ReplReads(ldbSendLogs(ldbBreak(d, argv)))
  ELSE IF IsCmd(argv[1], CmdEval)
  THEN ReplReads(ldbSendLogs(ldbEval(d, be)))
  ELSE IF IsCmd(argv[1], CmdAbort)
  THEN ReplRaises(d, "script aborted for user request")
  ELSE IF Len(argv) > 1 /\
          (IsCmd(argv[1], CmdRedis) \/ IsCmd(argv[1], CmdValkey) \/
           strcasecmp0(argv[1], SERVER_API_NAME))
  THEN ReplReads(ldbSendLogs(ldbServer(d, be)))
  ELSE IF IsCmd(argv[1], CmdPrint)
  THEN ReplReads(ldbSendLogs(IF Len(argv) = 2 THEN ldbPrint(d, be)
                             ELSE ldbPrintAll(d, be)))
  ELSE IF IsCmd(argv[1], CmdList)
  THEN ReplReads(ldbSendLogs(
         ldbList(d,
                 IF Len(argv) > 1 /\ atoi(argv[2]) > 0 THEN atoi(argv[2])
                 ELSE d.ldb.currentline,
                 IF Len(argv) > 2 THEN atoi(argv[3]) ELSE 5)))
  ELSE IF IsCmd(argv[1], CmdWhole)
  THEN ReplReads(ldbSendLogs(ldbList(d, 1, 1000000)))
  ELSE ReplReads(ldbSendLogs(
         ldbLog(d, LogEntry("<error> Unknown Lua debugger command or wrong number of arguments.", 0))))

\* ldbRepl from the top of its loop to the next connRead, return or
\* error: parsed is what ldbReplParseCommand makes of the buffer.  After
\* a command that does not return, the buffer is empty and the loop reads.
ldbReplParsed(d, parsed, be) ==
  IF parsed.argv = <<>>
  THEN IF parsed.err THEN ReplRaises(d, "protocol error")
       ELSE ReplReads(d)
  ELSE ldbReplCommand([d EXCEPT !.ldb.cbuf = <<>>, !.argv = parsed.argv],
                      parsed.argv, be)

ldbRepl(d, be) ==
  CHOOSE r \in {ldbReplParsed(d, parsed, be) :
                  parsed \in {ldbReplParseCommand(d.ldb.cbuf)}} : TRUE

\* ldbRepl after connRead returned the bytes buf.
ldbReplRead(d, buf, be) ==
  IF Len(d.ldb.cbuf) + Len(buf) > LdbMaxClientBuffer
  THEN ReplRaises([d EXCEPT !.ldb.cbuf = <<>>], "max client buffer reached")
  ELSE ldbRepl([d EXCEPT !.ldb.cbuf = @ \o buf], be)

\* ldbRepl after connRead returned 0 or less.
ldbReplReadFailed(d) ==
  ReplReturns([d EXCEPT !.ldb.step = 0, !.ldb.bpcount = 0], "C_ERR")

\* ldbShouldBreak.
ldbShouldBreak(l) == ldbIsBreakpoint(l, l.currentline) \/ l.luabp # 0

\* The hook the back-end calls at every line of the script (the Per-line
\* hook contract): it sets the current line and enters the REPL if step
\* mode is set, the line is a breakpoint or server.breakpoint() asked for
\* a break.  Entering the REPL it takes back the step mode and the
\* transient break through ldbSetStepMode and ldbSetBreakpointOnNextLine,
\* so that continue, which leaves the step mode as it finds it, runs to
\* the next breakpoint.
luaLdbLineHookAt(d, be) ==
  IF d.ldb.step # 0 \/ ldbShouldBreak(d.ldb)
  THEN ldbRepl([d EXCEPT !.ldb.step = 0, !.ldb.luabp = 0, !.entered = TRUE],
               be)
  ELSE ReplReturns(d, "none")

luaLdbLineHook(d, line, be) ==
  luaLdbLineHookAt([d EXCEPT !.ldb.currentline = line], be)

\* luaServerDebugCommand (src/src/lua/engine_lua.c).
luaServerDebugCommand(d) ==
  IF ~d.ldb.active THEN d
  ELSE ldbLog(d, LogEntry("<debug> line", d.ldb.currentline))

(***************************************************************************)
(* The state.                                                              *)
(***************************************************************************)
VARIABLES
  evalCtx,      \* [scripts, scripts_lru_list, scripts_mem]
  server,       \* [stat_evictedscripts, lazyfree_objects, lazyfreed_objects]
  engineMgr,    \* [engines, heap, total_memory_overhead, closed]:
                \* registered name -> address of the descriptor, the
                \* descriptors, and the destroyed Lua states pointed to
  bio_jobs,     \* the lazy-free jobs queued for the background thread
  bio_worker,   \* the background thread: [pc, engine, left], where it is
                \* in the job at the head of bio_jobs
  client,       \* every client and its connection: [lua_debug,
                \* lua_debug_sync, closing, blocking, asked]
  ldb,          \* struct ldbState of the server process
  lua,          \* the script the server runs under the debugger: [pc,
                \* client, body, numkeys, prepare, runs, aborted, lost,
                \* cut, hints, told,
                \* did]
  child,        \* the forked child of a debugging session: [pid, ldb, lua]
  last          \* the command that ran last, its reply and what it dispatched

vars ==
  <<evalCtx, server, engineMgr, bio_jobs, bio_worker, client, ldb, lua, child,
    last>>

\* The clients that are connected, and the one whose commands the
\* specifications of the cache follow.
Clients == 1..NumClients
FirstClient == CHOOSE c \in Clients : TRUE

\* A client that has just connected (createClient).  asked is the mode
\* its last SCRIPT DEBUG asked for, "no" once an EVAL has used it.
NewClient ==
  [lua_debug |-> FALSE, lua_debug_sync |-> FALSE, closing |-> FALSE,
   blocking |-> FALSE, asked |-> "no"]

Asked(c, opt) == [c EXCEPT !.asked = opt]

\* What a step of a debugging session did: op is "start", "hook", "call",
\* "read", "readfail" or "end", the rest is the record the operation of
\* the debugger left; values are the lengths of the lines the back-end
\* dumped for it.
DidOf(op, d) ==
  [op |-> op, wrote |-> d.wrote, ret |-> d.ret, raised |-> d.raised,
   argv |-> d.argv, entered |-> d.entered, values |-> <<>>]

\* No script runs under the debugger.
NoScript ==
  [pc |-> "idle", client |-> NULL, body |-> <<>>, numkeys |-> "none",
   prepare |-> TRUE, runs |-> FALSE, aborted |-> FALSE, lost |-> FALSE,
   cut |-> FALSE, hints |-> 0, told |-> FALSE,
   did |-> DidOf("none", DebugWorld(ldbInit))]

\* No forked child is there.
NoChild == [pid |-> NULL, ldb |-> ldbInit, lua |-> NoScript]

\* The background thread waits for a job.
WorkerIdle == [pc |-> "idle", engine |-> NULL, left |-> <<>>]

\* The record the cache operations work on, at the start of a command.
World ==
  [scripts |-> evalCtx.scripts, lru |-> evalCtx.scripts_lru_list,
   mem |-> evalCtx.scripts_mem,
   evicted |-> server.stat_evictedscripts,
   lazyfree_objects |-> server.lazyfree_objects,
   lazyfreed_objects |-> server.lazyfreed_objects,
   engines |-> engineMgr.engines, heap |-> engineMgr.heap,
   total |-> engineMgr.total_memory_overhead, jobs |-> bio_jobs,
   closed |-> engineMgr.closed,
   ret |-> NULL, callbacks |-> <<>>, dispatched |-> {},
   ncompile |-> 0, ncall |-> 0, nfree |-> 0, nreset |-> 0, ncallback |-> 0,
   nmeminfo |-> 0, nsetup |-> 0, nteardown |-> 0, nmodule |-> 0,
   nhandles |-> 0, nunref |-> 0, stale |-> FALSE,
   nested |-> FALSE, panic |-> FALSE]

\* What a command found when it began: the sizes of the cache and the
\* digest at the tail of the LRU list.
Before ==
  [scripts |-> Cardinality(DOMAIN evalCtx.scripts),
   lru |-> Len(evalCtx.scripts_lru_list),
   tail |-> IF evalCtx.scripts_lru_list = <<>> THEN NoEntry
            ELSE evalCtx.scripts_lru_list[Len(evalCtx.scripts_lru_list)].value]

\* The Lua states that a compiled function of the cache or of a job, or a
\* callback not yet run, points to.
StatesOf(scripts) == {scripts[k].lua : k \in DOMAIN scripts}

PointedTo(w) ==
  StatesOf(w.scripts) \cup
  UNION {StatesOf(w.jobs[i].scripts) \cup ContextsOf(w.jobs[i].engine_callbacks) :
         i \in 1..Len(w.jobs)}

\* The addresses of the Lua states are only compared with each other.
\* To keep states that differ only in these addresses apart from
\* multiplying, two addresses are exchanged in all that holds them, so
\* that the Lua state of the first engine that has one is at address 1.
Exchange(a, x) == IF x = a THEN 1 ELSE IF x = 1 THEN a ELSE x

ExchangeScripts(a, scripts) ==
  [k \in DOMAIN scripts |-> [scripts[k] EXCEPT !.lua = Exchange(a, @)]]

ExchangeCallbacks(a, callbacks) ==
  [i \in 1..Len(callbacks) |->
     [callbacks[i] EXCEPT !.context = Exchange(a, @)]]

ExchangeJob(a, job) ==
  [job EXCEPT !.scripts = ExchangeScripts(a, @),
              !.engine_callbacks = ExchangeCallbacks(a, @)]

FirstState(w) ==
  LET with == {e \in DOMAIN w.heap : w.heap[e].eval_lua # NULL}
  IN IF with = {} THEN 1
     ELSE w.heap[CHOOSE e \in with : \A f \in with : e <= f].eval_lua

Exchanged(w, a) ==
  IF a = 1 THEN w
  ELSE [w EXCEPT
          !.scripts = ExchangeScripts(a, @),
          !.jobs = [i \in 1..Len(w.jobs) |-> ExchangeJob(a, w.jobs[i])],
          !.heap = [e \in DOMAIN w.heap |->
                      [w.heap[e] EXCEPT !.eval_lua = Exchange(a, @)]],
          !.closed = {Exchange(a, x) : x \in w.closed}]

\* The state a step leaves: the record w written back, and what ran.  Of
\* the destroyed Lua states those are remembered that something points to.
CommitWorld(wr, cmd, arg, numkeys, sha, reply) ==
  \E w \in {Exchanged(wr, FirstState(wr))} :
    /\ evalCtx' = [scripts |-> w.scripts, scripts_lru_list |-> w.lru,
                   scripts_mem |-> w.mem]
    /\ server' = [stat_evictedscripts |-> w.evicted,
                  lazyfree_objects |-> w.lazyfree_objects,
                  lazyfreed_objects |-> w.lazyfreed_objects]
    /\ bio_jobs' = w.jobs
    /\ engineMgr' = [engines |-> w.engines, heap |-> w.heap,
                     total_memory_overhead |-> w.total,
                     closed |-> IF w.closed = {} THEN {}
                                ELSE w.closed \cap PointedTo(w)]
    /\ last' = [cmd |-> cmd, arg |-> arg, numkeys |-> numkeys, sha |-> sha,
                reply |-> reply,
                before |-> Before,
                dispatched |-> w.dispatched,
                ncompile |-> w.ncompile, ncall |-> w.ncall, nfree |-> w.nfree,
                nreset |-> w.nreset, ncallback |-> w.ncallback,
                nmeminfo |-> w.nmeminfo, nsetup |-> w.nsetup,
                nteardown |-> w.nteardown, nmodule |-> w.nmodule,
                nhandles |-> w.nhandles, nested |-> w.nested,
                nunref |-> w.nunref, stale |-> w.stale,
                panic |-> w.panic]

\* The state a command of the main thread leaves.
CommitKeys(w, cmd, arg, numkeys, sha, reply) ==
  /\ CommitWorld(w, cmd, arg, numkeys, sha, reply)
  /\ bio_worker' = bio_worker

\* The state a command leaves that takes no number of keys.
Commit(w, cmd, arg, sha, reply) == CommitKeys(w, cmd, arg, "none", sha, reply)

\* The state a command leaves that ran evalGenericCommand or
\* evalRegisterNewScript with the result r.
CommitResult(r, cmd, arg, reply) == Commit(r.w, cmd, arg, r.sha, reply)

\* EVAL and EVALSHA: evalGetCommandFlags, then evalGenericCommand.
evalDispatched(r, cmd, arg, numkeys) ==
  CommitKeys(r.w, cmd, arg, numkeys, r.sha, r.reply)

evalDispatch(w, cmd, arg, evalsha, numkeys, prepare, run) ==
  evalDispatched(
    evalGenericCommand(w, arg, evalsha,
                       evalGetCommandFlags(w, evalsha, arg).cur_script,
                       numkeys, prepare, run),
    cmd, arg, numkeys)

\* The cache after evalInit and scriptingEngineManagerInit.
EmptyWorld ==
  [scripts |-> <<>>, lru |-> <<>>, mem |-> 0, evicted |-> 0,
   lazyfree_objects |-> 0, lazyfreed_objects |-> 0,
   engines |-> <<>>, heap |-> <<>>, total |-> 0, jobs |-> <<>>,
   closed |-> {},
   ret |-> NULL, callbacks |-> <<>>, dispatched |-> {},
   ncompile |-> 0, ncall |-> 0, nfree |-> 0, nreset |-> 0, ncallback |-> 0,
   nmeminfo |-> 0, nsetup |-> 0, nteardown |-> 0, nmodule |-> 0,
   nhandles |-> 0, nunref |-> 0, stale |-> FALSE,
   nested |-> FALSE, panic |-> FALSE]

\* The addresses of the descriptors of LUA and of a module's engine.
LuaEngine == 1
ModuleEngine == 2

\* luaEngineInitEngine: the Lua engine is registered, owned by no module.
luaEngineInitEngine(w) ==
  scriptingEngineManagerRegister(w, LUA_ENGINE_NAME, NULL, "lua", LuaEngine).w

\* The cache after evalInit, with the Lua engine registered.
ColdWorld == luaEngineInitEngine(EmptyWorld)


\* The cache after EVAL of the filler scripts lo..hi, each run once.
RECURSIVE Warm(_, _, _)
Warm(w, lo, hi) ==
  IF w.panic \/ lo > hi THEN w
  ELSE IF lo = hi
  THEN evalGenericCommand(w, FillerBody(lo), FALSE, NoEntry, "ok", TRUE, TRUE).w
  ELSE LET mid == (lo + hi) \div 2
       IN Warm(Warm(w, lo, mid), mid + 1, hi)

InitFrom(w) ==
  /\ evalCtx = [scripts |-> w.scripts, scripts_lru_list |-> w.lru,
                scripts_mem |-> w.mem]
  /\ server = [stat_evictedscripts |-> w.evicted,
               lazyfree_objects |-> 0, lazyfreed_objects |-> 0]
  /\ engineMgr = [engines |-> w.engines, heap |-> w.heap,
                  total_memory_overhead |-> w.total, closed |-> {}]
  /\ bio_jobs = <<>>
  /\ bio_worker = WorkerIdle
  /\ client = [c \in Clients |-> NewClient]
  /\ ldb = ldbInit
  /\ lua = NoScript
  /\ child = NoChild
  /\ last = [cmd |-> "init", arg |-> <<>>, numkeys |-> "none", sha |-> NoEntry,
             reply |-> ReplyOf("none", <<>>),
             before |-> [scripts |-> 0, lru |-> 0, tail |-> NoEntry],
             ncompile |-> 0, ncall |-> 0, nfree |-> 0, nreset |-> 0,
             ncallback |-> 0, nmeminfo |-> 0, nsetup |-> 0,
             nteardown |-> 0, nmodule |-> 0, nested |-> FALSE,
             nhandles |-> 0, nunref |-> 0, stale |-> FALSE,
             dispatched |-> {}, panic |-> FALSE]

\* The server after start-up.
Init == InitFrom(ColdWorld)

\* The cache after the module of HELLO was loaded and the HELLO filler
\* scripts lo..hi were run with EVAL.
RECURSIVE WarmHello(_, _, _)
WarmHello(w, lo, hi) ==
  IF w.panic \/ lo > hi THEN w
  ELSE IF lo = hi
  THEN evalGenericCommand(w, HelloFillerBody(lo), FALSE, NoEntry, "ok",
                          TRUE, TRUE).w
  ELSE LET mid == (lo + hi) \div 2
       IN WarmHello(WarmHello(w, lo, mid), mid + 1, hi)

HelloWorld ==
  WarmHello(
    scriptingEngineManagerRegister(ColdWorld, HELLO_ENGINE_NAME, HelloModule,
                                   "hello", ModuleEngine).w,
    1, NumHelloFill)

InitHello == InitFrom(HelloWorld)

\* The server after start-up and EVAL of NumFill filler scripts.
WarmWorld == Warm(ColdWorld, 1, NumFill)

InitWarm == InitFrom(WarmWorld)

\* A command is read from the client only while the server runs, no
\* script blocks it in the debugger and the client is not being closed.
Serving(c) == ~last.panic /\ lua.pc = "idle" /\ ~client[c].closing

(***************************************************************************)
(* The commands.                                                           *)
(***************************************************************************)
\* ldbEnable: the flag of the client, and the debugger set for a new
\* session.
ldbEnable(c) == [c EXCEPT !.lua_debug = TRUE]

\* ldbDisable that leaves the flags of the client as they are.
ldbDisable_KeepsFlags(c) == c

\* ldbDisable.
ldbDisable(c) == [c EXCEPT !.lua_debug = FALSE, !.lua_debug_sync = FALSE]

\* EVAL body numkeys ... of a client that is not debugging.
EvalCommand(c, body, numkeys, prepare, run) ==
  /\ Serving(c) /\ ~client[c].lua_debug
  /\ evalDispatch(World, "EVAL", body, FALSE, numkeys, prepare, run)
  /\ UNCHANGED <<client, ldb, lua, child>>

\* Whether evalGenericCommand gets as far as calling the script.
evalRuns(r) == r.w.ncall > 0

\* The script that EVAL of client c begins to run under the debugger.
ScriptOf(c, body, numkeys, prepare, r) ==
  [pc |-> "script", client |-> c, body |-> body, numkeys |-> numkeys,
   prepare |-> prepare, runs |-> evalRuns(r), aborted |-> FALSE,
   lost |-> FALSE, cut |-> FALSE, hints |-> 0, told |-> FALSE,
   did |-> DidOf("start", DebugWorld(ldbInit))]

\* ldbStartSession in the process that goes on with the script: the
\* connection of the debugger blocks, the source is split into lines.
ldbStartSessionConn(cl, conn) ==
  IF conn = NULL THEN cl ELSE [cl EXCEPT ![conn].blocking = TRUE]

\* EVAL of a debugging client (evalGenericCommandWithDebugging), up to
\* the return of ldbStartSession, what forkok says fork returned.  A
\* forked session: fork fails, or this process is the parent, which drops
\* the client, and the child goes on.  A synchronous session goes on in
\* this process.  When ldbStartSession returns 0 the client stops
\* debugging (ldbDisable).
EvalCommandWithDebugging(c, body, numkeys, prepare, forkok) ==
  /\ Serving(c) /\ client[c].lua_debug
  /\ IF ~client[c].lua_debug_sync
     THEN IF ~forkok
          THEN /\ ldb' = [ldb EXCEPT !.forked = TRUE]
               /\ client' = [client EXCEPT ![c] = Asked(ldbDisable(@), "no")]
               /\ UNCHANGED <<lua, child>>
               /\ CommitKeys(World, "EVAL", body, numkeys, NoEntry,
                             ReplyOf("ERR fork", <<>>))
          ELSE /\ Len(ldb.children) < MaxChildren
               /\ \E pid \in {Alloc({ldb.children[i] : i \in 1..Len(ldb.children)})},
                     r \in {evalGenericCommand(World, body, FALSE, NoEntry,
                                               numkeys, prepare, TRUE)} :
                    /\ ldb' = [ldb EXCEPT !.forked = TRUE,
                                          !.children = Append(@, pid)]
                    /\ child' =
                         [pid |-> pid,
                          ldb |-> ldbStartSessionSetup(
                                    [ldb EXCEPT !.forked = TRUE], body),
                          lua |-> ScriptOf(c, body, numkeys, prepare, r)]
               /\ client' =
                    [ldbStartSessionConn(client, ldb.conn) EXCEPT
                       ![c] = [Asked(ldbDisable(@), "no") EXCEPT
                                 !.closing = TRUE]]
               /\ UNCHANGED lua
               /\ CommitKeys(World, "EVAL", body, numkeys, NoEntry,
                             ReplyOf("none", <<>>))
     ELSE /\ \E r \in {evalGenericCommand(World, body, FALSE, NoEntry,
                                          numkeys, prepare, TRUE)} :
               lua' = ScriptOf(c, body, numkeys, prepare, r)
          /\ ldb' = ldbStartSessionSetup([ldb EXCEPT !.forked = FALSE], body)
          /\ client' = [ldbStartSessionConn(client, ldb.conn) EXCEPT
                          ![c] = Asked(@, "no")]
          /\ UNCHANGED <<evalCtx, server, engineMgr, bio_jobs, bio_worker,
                         child, last>>

\* EVALSHA sha numkeys ...
EvalShaCommand(c, arg, numkeys, prepare, run) ==
  /\ Serving(c)
  /\ IF Len(arg) # SHA_LEN
     THEN CommitKeys(World, "EVALSHA", arg, numkeys, NoEntry,
                     ReplyOf("NOSCRIPT", <<>>))
     ELSE IF client[c].lua_debug
     THEN CommitKeys(World, "EVALSHA", arg, numkeys, NoEntry,
                     ReplyOf("ERR use EVAL", <<>>))
     ELSE evalDispatch(World, "EVALSHA", arg, TRUE, numkeys, prepare, run)
  /\ UNCHANGED <<client, ldb, lua, child>>

\* SCRIPT LOAD body, r what evalRegisterNewScript returned.
scriptLoaded(r, body) ==
  CommitResult(r, "SCRIPT LOAD", body,
               IF r.rc = "C_OK" THEN ReplyOf("bulk", r.sha) ELSE r.reply)

\* SCRIPT LOAD body.
ScriptLoad(c, body) ==
  /\ Serving(c)
  /\ scriptLoaded(evalRegisterNewScript(World, body, TRUE, NoEntry), body)
  /\ UNCHANGED <<client, ldb, lua, child>>

\* SCRIPT EXISTS sha ...: 1 or 0 for every argument.
ScriptExists(c, args) ==
  /\ Serving(c)
  /\ Commit(World, "SCRIPT EXISTS", args, NoEntry,
            ReplyOf("array",
                    [j \in 1..Len(args) |->
                       IF dictFind(evalCtx.scripts, args[j]) # NoEntry
                       THEN 1 ELSE 0]))
  /\ UNCHANGED <<client, ldb, lua, child>>

\* SCRIPT SHOW sha.
ScriptShow(c, arg) ==
  /\ Serving(c)
  /\ LET de == dictFind(evalCtx.scripts, arg)
     IN Commit(World, "SCRIPT SHOW", arg, de,
               IF Len(arg) = SHA_LEN /\ de # NoEntry
               THEN ReplyOf("bulk", evalCtx.scripts[de].body)
               ELSE ReplyOf("NOSCRIPT", <<>>))
  /\ UNCHANGED <<client, ldb, lua, child>>

\* SCRIPT FLUSH [SYNC|ASYNC]: mode is "sync", "async", "" (no argument)
\* or "bad"; lazy is server.lazyfree_lazy_user_flush.
ScriptFlush(c, mode, lazy) ==
  /\ Serving(c)
  /\ IF mode = "bad"
     THEN Commit(World, "SCRIPT FLUSH", <<mode>>, NoEntry, ReplyOf("ERR flush", <<>>))
     ELSE Commit(evalReset(World, mode = "async" \/ (mode = "" /\ lazy)),
                 "SCRIPT FLUSH", <<mode>>, NoEntry, ReplyOf("OK", <<>>))
  /\ UNCHANGED <<client, ldb, lua, child>>

\* SCRIPT DEBUG YES|SYNC|NO: pending says that the client has replies
\* pending (a pipeline).  The connection of client c is named c.
ScriptDebug(c, opt, pending) ==
  /\ Serving(c)
  /\ client' = IF pending THEN client
               ELSE CASE opt = "no" ->
                           [client EXCEPT ![c] = Asked(ldbDisable(@), opt)]
                      [] opt = "yes" ->
                           [client EXCEPT ![c] = Asked(ldbEnable(@), opt)]
                      [] opt = "sync" ->
                           [client EXCEPT
                              ![c] = Asked([ldbEnable(@) EXCEPT
                                              !.lua_debug_sync = TRUE], opt)]
                      [] OTHER -> client
  /\ ldb' = IF ~pending /\ opt \in {"yes", "sync"} THEN ldbEnableState(ldb, c)
            ELSE ldb
  /\ UNCHANGED <<lua, child>>
  /\ Commit(World, "SCRIPT DEBUG", <<opt>>, NoEntry,
            ReplyOf(IF pending \/ opt \notin {"no", "yes", "sync"}
                    THEN "ERR debug" ELSE "OK", <<>>))

\* The client that was dropped is gone; the next one connects.
FreeClient(c) ==
  /\ ~last.panic /\ lua.pc = "idle" /\ client[c].closing
  /\ client' = [client EXCEPT ![c] = NewClient]
  /\ UNCHANGED <<evalCtx, server, engineMgr, bio_jobs, bio_worker, ldb, lua,
                 child, last>>

\* listSearchKey on a list without a match method: the position of the
\* first node whose value is key, 0 if there is none.
listSearchKey(list, key) ==
  IF \E i \in 1..Len(list) : list[i] = key
  THEN CHOOSE i \in 1..Len(list) :
         list[i] = key /\ \A j \in 1..(i - 1) : list[j] # key
  ELSE 0

\* ldbRemoveChild that finds the pid and leaves it in the list.
ldbRemoveChild_KeepsPid(l, pid) ==
  [ldb |-> l, ret |-> IF listSearchKey(l.children, pid) # 0 THEN 1 ELSE 0]

\* ldbRemoveChild: the debugger it leaves and what it returns.
ldbRemoveChild(l, pid) ==
  IF listSearchKey(l.children, pid) # 0
  THEN [ldb |-> [l EXCEPT
                   !.children =
                      SubSeq(@, 1, listSearchKey(@, pid) - 1) \o
                      SubSeq(@, listSearchKey(@, pid) + 1, Len(@))],
        ret |-> 1]
  ELSE [ldb |-> l, ret |-> 0]

\* ldbPendingChildren.
ldbPendingChildren(l) == Len(l.children)

\* ldbKillForkedSessions: the debugger it leaves and the pids it sent
\* SIGKILL to, in the order of the signals.
ldbKillForkedSessions(l) ==
  [ldb |-> [l EXCEPT !.children = <<>>],
   killed |-> [i \in 1..Len(l.children) |-> l.children[i]]]

\* ldbRemoveChild(pid) of a child that ended or was killed.
LdbRemoveChild(pid) ==
  /\ ~last.panic /\ lua.pc = "idle"
  /\ ldbRemoveChild(ldb, pid).ret = 1
  /\ ldb' = ldbRemoveChild(ldb, pid).ldb
  /\ child' = IF child.pid = pid THEN NoChild ELSE child
  /\ UNCHANGED <<evalCtx, server, engineMgr, bio_jobs, bio_worker, client,
                 lua, last>>

\* The server has waited for the child pid, one of a debugging session
\* or not (checkChildrenDone): ldbRemoveChild tells which, and the reply
\* kept is the pid and what ldbRemoveChild returned.
LdbChildDone(pid) ==
  /\ ~last.panic /\ lua.pc = "idle"
  /\ \E r \in {ldbRemoveChild(ldb, pid)} :
       /\ ldb' = r.ldb
       /\ Commit(World, "wait", <<>>, NoEntry, ReplyOf("wait", <<pid, r.ret>>))
  /\ child' = IF child.pid = pid THEN NoChild ELSE child
  /\ UNCHANGED <<client, lua>>

\* The server kills the forked sessions (before it shuts down): the
\* reply kept is the pids that were sent SIGKILL.  A child that is killed
\* runs no more.
LdbKillForkedSessions ==
  /\ ~last.panic /\ lua.pc = "idle"
  /\ \E r \in {ldbKillForkedSessions(ldb)} :
       /\ ldb' = r.ldb
       /\ Commit(World, "kill", <<>>, NoEntry, ReplyOf("kill", r.killed))
       /\ child' = IF \E i \in 1..Len(r.killed) : r.killed[i] = child.pid
                   THEN [child EXCEPT !.lua.pc = "exited"]
                   ELSE child
  /\ UNCHANGED <<client, lua>>

(***************************************************************************)
(* A debugging session.  The script runs in the server (a synchronous      *)
(* session) or in the forked child; p names the process.                   *)
(***************************************************************************)
Processes == {"server", "child"}

\* The debugger and the script of process p.
Debugged(p) ==
  IF p = "server" THEN [ldb |-> ldb, lua |-> lua]
  ELSE [ldb |-> child.ldb, lua |-> child.lua]

\* Process p goes on with the debugger l and the script u.
StoreDebugged(p, l, u) ==
  IF p = "server" THEN ldb' = l /\ lua' = u /\ child' = child
  ELSE child' = [child EXCEPT !.ldb = l, !.lua = u] /\ ldb' = ldb /\ lua' = lua

\* The lines of the replies written, in the order they were written.
RECURSIVE WroteLines(_)
WroteLines(wrote) ==
  IF wrote = <<>> THEN <<>>
  ELSE wrote[1].lines \o WroteLines(Tail(wrote))

\* Of the lines, those that were cut and those that are the hint.
CutLines(lines) == {i \in 1..Len(lines) : lines[i].tail = Ellipsis}
HintLines(lines) == {i \in 1..Len(lines) : lines[i].text = MaxlenHint}

\* The prefixes of the lines the back-end dumps: the value of eval, the
\* reply of a command, a variable, and every local variable.
DumpTexts == {"<retval>", "<reply>", "<value>", "<value> name ="}
DumpLines(lines) == {i \in 1..Len(lines) : lines[i].text \in DumpTexts}

\* The lengths of the lines the back-end dumped for the replies written:
\* of what it answers, as many as there are lines of a dump.
Dumped(d, be) ==
  SubSeq(be.values, 1, Cardinality(DumpLines(WroteLines(d.wrote))))

\* The most hints a session is counted to have sent.
MaxHints == 2

\* The script after an operation of the debugger: it waits in connRead of
\* the REPL, or it goes on; an error the debugger raised ends it; lost
\* says that a read of the session has failed, cut that the session sent
\* a line that was cut, hints how many hints it sent, told that it ran
\* maxlen with a limit.
LuaAfter(u, op, d) ==
  [u EXCEPT !.pc = IF d.ret = "read" THEN "repl" ELSE "script",
            !.aborted = @ \/ d.ret = "raised",
            !.lost = @ \/ op = "readfail",
            !.cut = @ \/ CutLines(WroteLines(d.wrote)) # {},
            !.hints = IF @ + Cardinality(HintLines(WroteLines(d.wrote)))
                           > MaxHints
                      THEN MaxHints
                      ELSE @ + Cardinality(HintLines(WroteLines(d.wrote))),
            !.told = @ \/ (op = "read" /\ Len(d.argv) = 2 /\
                           IsCmd(d.argv[1], CmdMaxlen)),
            !.did = DidOf(op, d)]

\* The script is at a line and its process runs.
AtScript(p, s) ==
  /\ ~last.panic
  /\ s.lua.pc = "script" /\ s.lua.runs /\ ~s.lua.aborted

\* The script gets to the line: the back-end calls the hook.
LdbLineHook(p, line, be) ==
  /\ \E s \in {Debugged(p)} :
       /\ AtScript(p, s)
       /\ line \in 1..s.ldb.lines
       /\ \E d \in {luaLdbLineHook(DebugWorld(s.ldb), line, be)} :
            StoreDebugged(p, d.ldb, LuaAfter(s.lua, "hook", d))
  /\ UNCHANGED <<evalCtx, server, engineMgr, bio_jobs, bio_worker, client,
                 last>>

\* The script calls server.breakpoint().
LdbScriptBreakpoint(p) ==
  /\ \E s \in {Debugged(p)} :
       /\ AtScript(p, s)
       /\ s.ldb.luabp = 0
       /\ StoreDebugged(p, luaServerBreakpointCommand(s.ldb),
                        LuaAfter(s.lua, "call", DebugWorld(s.ldb)))
  /\ UNCHANGED <<evalCtx, server, engineMgr, bio_jobs, bio_worker, client,
                 last>>

\* The script calls server.debug(): a line is logged for the next reply.
LdbScriptDebug(p) ==
  /\ \E s \in {Debugged(p)} :
       /\ AtScript(p, s)
       /\ Len(s.ldb.logs) < MaxLogs
       /\ \E d \in {luaServerDebugCommand(DebugWorld(s.ldb))} :
            StoreDebugged(p, d.ldb, LuaAfter(s.lua, "call", d))
  /\ UNCHANGED <<evalCtx, server, engineMgr, bio_jobs, bio_worker, client,
                 last>>

\* connRead of the REPL returns the bytes buf.
LdbReplRead(p, buf, be) ==
  /\ ~last.panic
  /\ \E s \in {Debugged(p)} :
       /\ s.lua.pc = "repl"
       /\ \E d \in {ldbReplRead(DebugWorld(s.ldb), buf, be)} :
            StoreDebugged(p, d.ldb,
                          [LuaAfter(s.lua, "read", d) EXCEPT
                             !.did.values = Dumped(d, be)])
  /\ UNCHANGED <<evalCtx, server, engineMgr, bio_jobs, bio_worker, client,
                 last>>

\* connRead of the REPL returns 0 or less: the peer closed the
\* connection, or nothing came within the time the socket waits.
LdbReplReadFails(p) ==
  /\ ~last.panic
  /\ \E s \in {Debugged(p)} :
       /\ s.lua.pc = "repl"
       /\ \E d \in {ldbReplReadFailed(DebugWorld(s.ldb))} :
            StoreDebugged(p, d.ldb, LuaAfter(s.lua, "readfail", d))
  /\ UNCHANGED <<evalCtx, server, engineMgr, bio_jobs, bio_worker, client,
                 last>>

\* The script of a synchronous session ends: evalGenericCommand returns
\* and ldbEndSession runs (evalGenericCommandWithDebugging).  run says
\* whether the script ran without an error.
LdbEndSession(run) ==
  /\ ~last.panic /\ lua.pc = "script"
  /\ lua.aborted => ~run
  /\ evalDispatch(World, "EVAL", lua.body, FALSE, lua.numkeys, lua.prepare,
                  run)
  /\ \E d \in {ldbEndSessionLogs(DebugWorld(ldb))} :
       /\ ldb' = ldbEndSessionCleanup(d.ldb)
       /\ lua' = [NoScript EXCEPT !.client = lua.client,
                                  !.did = DidOf("end", d)]
  /\ client' = [client EXCEPT ![ldb.conn].blocking = FALSE,
                              ![lua.client].closing = TRUE]
  /\ UNCHANGED child

\* The script of the forked child ends: ldbEndSession writes what is
\* pending and the child exits.
LdbEndSessionChild ==
  /\ ~last.panic /\ child.lua.pc = "script"
  /\ \E d \in {ldbEndSessionLogs(DebugWorld(child.ldb))} :
       child' = [child EXCEPT
                   !.ldb = d.ldb,
                   !.lua = [NoScript EXCEPT !.pc = "exited",
                                            !.client = child.lua.client,
                                            !.did = DidOf("end", d)]]
  /\ UNCHANGED <<evalCtx, server, engineMgr, bio_jobs, bio_worker, client,
                 ldb, lua, last>>

\* The background thread runs the oldest lazy-free job.
LazyFreeWorker ==
  /\ ~last.panic
  /\ bio_jobs # <<>> /\ bio_worker.pc = "idle"
  /\ \E w0 \in {World} : \E w \in {lazyFreeEvalScripts(w0)} :
       Commit(w, "lazyfree", <<>>, NoEntry, ReplyOf("none", <<>>))
  /\ UNCHANGED <<client, ldb, lua, child>>

\* A module registers an engine (ValkeyModule_RegisterScriptingEngine in
\* its OnLoad): e is the address zmalloc returns for the descriptor, one
\* that no live descriptor has.
RegisterEngineDone(r, engine_name) ==
  Commit(r.w, "register", engine_name, NoEntry, ReplyOf(r.rc, <<>>))

RegisterEngine(engine_name, e) ==
  /\ ~last.panic
  /\ ColdWorld.total - engineMgr.total_memory_overhead <= MaxLost
  /\ \A n \in DOMAIN engineMgr.engines : engineMgr.engines[n] # e
  /\ RegisterEngineDone(
       scriptingEngineManagerRegister(World, engine_name, HelloModule,
                                      "hello", e),
       engine_name)
  /\ UNCHANGED <<client, ldb, lua, child>>

\* A module unregisters an engine it registered (OnUnload): after is what
\* the freed descriptor does when it is accessed later.
UnregisterEngineDone(r, engine_name) ==
  Commit(r.w, "unregister", engine_name, NoEntry, ReplyOf(r.rc, <<>>))

UnregisterEngine(engine_name, after) ==
  /\ ~last.panic
  /\ scriptingEngineManagerFind(engineMgr.engines, engine_name) # NoEngine
       => engineMgr.heap[engineMgr.engines[
            scriptingEngineManagerFind(engineMgr.engines, engine_name)]].module
          # NULL
  /\ UnregisterEngineDone(
       scriptingEngineManagerUnregister(World, engine_name, after),
       engine_name)
  /\ UNCHANGED <<client, ldb, lua, child>>

\* scriptingEngineManagerFind(engine_name): the reply holds the address of
\* the descriptor found, NULL when there is none.
FindEngine(engine_name) ==
  /\ ~last.panic
  /\ Commit(World, "find", engine_name, NoEntry,
            ReplyOf("engine",
                    IF scriptingEngineManagerFind(engineMgr.engines, engine_name)
                       = NoEngine
                    THEN NULL
                    ELSE engineMgr.engines[
                           scriptingEngineManagerFind(engineMgr.engines,
                                                      engine_name)]))
  /\ UNCHANGED <<client, ldb, lua, child>>

\* The background thread, step by step.  lazyFreeEvalScripts takes the
\* oldest job and reads its size; dictRelease then runs the destructor of
\* entry after entry: scriptingEngineCallFreeFunction up to the method,
\* then the method and the tear-down; at last the list is released, the
\* callbacks run and the counters move.  left[e] is the number of entries
\* of the engine at e still to free.
CommitWorker(w, cmd) ==
  CommitWorld(w, cmd, <<>>, "none", NoEntry, ReplyOf("none", <<>>))

WorkerTake ==
  /\ ~last.panic
  /\ bio_worker.pc = "idle" /\ bio_jobs # <<>>
  /\ bio_worker' =
       [pc |-> "entries", engine |-> NULL,
        left |-> EntriesOf(bio_jobs[1].scripts)]
  /\ UNCHANGED <<evalCtx, server, engineMgr, bio_jobs, client, ldb, lua, child,
                 last>>

\* The Lua state of the compiled function of an entry that the engine at
\* e compiled.
StateOfEntry(scripts, e) ==
  CHOOSE x \in {scripts[k].lua : k \in {j \in DOMAIN scripts :
                                          scripts[j].engine = e}} : TRUE

WorkerSetup(e) ==
  /\ ~last.panic
  /\ bio_worker.pc = "entries"
  /\ e \in DOMAIN bio_worker.left /\ bio_worker.left[e] > 0
  /\ bio_worker' = [bio_worker EXCEPT !.pc = "method", !.engine = e]
  /\ CommitWorker(scriptingEngineCallFreeFunctionSetup(World, e),
                  "lazyfree setup")
  /\ UNCHANGED <<client, ldb, lua, child>>

\* The module context is shared with the main thread and not locked: when
\* the main thread used it in between, the tear-down frees a context that
\* is not set, and the server may crash.
WorkerFreed(w, crash) ==
  CommitWorker([w EXCEPT !.panic = @ \/ (crash /\ w.nested)],
               "lazyfree method")

WorkerMethod(crash) ==
  /\ ~last.panic
  /\ bio_worker.pc = "method"
  /\ bio_worker' = [bio_worker EXCEPT
                      !.pc = "entries", !.engine = NULL,
                      !.left[bio_worker.engine] = @ - 1]
  /\ WorkerFreed(
       scriptingEngineCallFreeFunctionMethod(
         World, bio_worker.engine,
         StateOfEntry(bio_jobs[1].scripts, bio_worker.engine)),
       crash)
  /\ UNCHANGED <<client, ldb, lua, child>>

WorkerFinish ==
  /\ ~last.panic
  /\ bio_worker.pc = "entries"
  /\ \A e \in DOMAIN bio_worker.left : bio_worker.left[e] = 0
  /\ bio_worker' = WorkerIdle
  /\ CommitWorker(
       [engineLazyEvalResetCallbacks(World, bio_jobs[1].engine_callbacks) EXCEPT
          !.jobs = Tail(@),
          !.lazyfree_objects = @ - Cardinality(DOMAIN bio_jobs[1].scripts),
          !.lazyfreed_objects = @ + Cardinality(DOMAIN bio_jobs[1].scripts)],
       "lazyfree")
  /\ UNCHANGED <<client, ldb, lua, child>>

(***************************************************************************)
(* The inputs of the model.                                                *)
(***************************************************************************)

\* A digest in upper case, and with every second character in upper case.
UpperCase(s) == [i \in 1..Len(s) |-> toupper(s[i])]
MixedCase(s) == [i \in 1..Len(s) |-> IF i % 2 = 0 THEN toupper(s[i]) ELSE s[i]]

\* 40 characters that are no digest of a body of the model.
ShaUnknown == [i \in 1..SHA_LEN |-> IF i % 2 = 0 THEN "Z" ELSE "9"]
\* "abc"
ShaShort == <<"a","b","c">>

CaseVariants(d) == {d, UpperCase(d), MixedCase(d)}

ShaArgs ==
  CaseVariants(Digest(BodyA)) \cup {Digest(BodyB), UpperCase(Digest(BodyC))} \cup
  {ShaUnknown, ShaShort, Digest(BodyA) \o <<"0">>}

\* The ways EVAL / EVALSHA go on after the script is found: the number of
\* keys, whether the run is accepted, whether the script fails.
RunInputs ==
  {<<"ok", TRUE, TRUE>>, <<"ok", TRUE, FALSE>>, <<"ok", FALSE, TRUE>>,
   <<"negative", TRUE, TRUE>>}

FlushModes == {"sync", "async", "", "bad"}

(***************************************************************************)
(* The specifications.                                                     *)
(***************************************************************************)
\* The commands of a client that does not debug: those that may add a
\* script, and the others.
AddCommands(c, bodies, runs) ==
  \/ \E body \in bodies, in \in runs :
       EvalCommand(c, body, in[1], in[2], in[3])
  \/ \E body \in bodies : ScriptLoad(c, body)

LookupCommands(c, shas, runs) ==
  \/ \E arg \in shas, in \in runs :
       EvalShaCommand(c, arg, in[1], in[2], in[3])
  \/ \E arg \in shas : ScriptExists(c, <<arg>>)
  \/ \E arg \in shas : ScriptShow(c, arg)
  \/ \E mode \in FlushModes, lazy \in BOOLEAN : ScriptFlush(c, mode, lazy)

CacheCommands(c, bodies, shas, runs) ==
  \/ AddCommands(c, bodies, runs)
  \/ LookupCommands(c, shas, runs)

\* A request of the debugging client as it arrives: the arguments argv
\* in the protocol of the server.
CrLf == <<"\r", "\n">>

RECURSIVE Bulks(_, _, _)
Bulks(argv, lo, hi) ==
  IF lo > hi THEN <<>>
  ELSE IF lo = hi
  THEN <<"$">> \o Decimal(Len(argv[lo])) \o CrLf \o argv[lo] \o CrLf
  ELSE Bulks(argv, lo, (lo + hi) \div 2) \o
       Bulks(argv, ((lo + hi) \div 2) + 1, hi)

Request(argv) ==
  <<"*">> \o Decimal(Len(argv)) \o CrLf \o Bulks(argv, 1, Len(argv))

\* The back-end has nothing to answer: no value, no error, its stack
\* can be read and holds no frame.
NoAnswer == BackEnd(<<>>, FALSE, <<>>, TRUE, FALSE)

\* The commands of debugging, and what follows them.
DebugCommands(c, bodies, runs) ==
  \/ \E body \in bodies, in \in runs, forkok \in BOOLEAN :
       EvalCommandWithDebugging(c, body, in[1], in[2], forkok)
  \/ \E opt \in {"yes", "sync", "no", "maybe"}, pending \in BOOLEAN :
       ScriptDebug(c, opt, pending)
  \/ FreeClient(c)
  \/ \E pid \in 1..MaxChildren : LdbRemoveChild(pid)

\* The steps of a debugging session in process p: the lines the script
\* gets to, the requests that arrive and what the back-end answers.
SessionOf(p, lines, requests, answers) ==
  \/ \E line \in lines, be \in answers : LdbLineHook(p, line, be)
  \/ LdbScriptBreakpoint(p)
  \/ LdbScriptDebug(p)
  \/ \E buf \in requests, be \in answers : LdbReplRead(p, buf, be)
  \/ LdbReplReadFails(p)

\* The steps of the sessions of the server and of its forked child.
SessionSteps(lines, requests, answers) ==
  \/ \E p \in Processes : SessionOf(p, lines, requests, answers)
  \/ \E run \in BOOLEAN : LdbEndSession(run)
  \/ LdbEndSessionChild

\* A server started empty, its clients not debugging.
Next ==
  \/ CacheCommands(FirstClient, GoodBodies \cup {BodyNoEngine, BodySyntax}, ShaArgs, RunInputs)
  \/ ScriptExists(FirstClient, <<UpperCase(Digest(BodyA)), ShaUnknown>>)

Spec == Init /\ [][Next]_vars

\* A server whose cache holds NumFill scripts run by EVAL.  Scripts are
\* added until the first flush that hands the cache to the background
\* thread.
WarmBodies == {BodyA, BodyB, BodyC}
WarmShas == {UpperCase(Digest(BodyA)), ShaUnknown}
WarmRuns == {<<"ok", TRUE, TRUE>>}

NoneLazyFreed == server.lazyfree_objects + server.lazyfreed_objects = 0

NextWarm ==
  \/ AddCommands(FirstClient, IF NoneLazyFreed THEN WarmBodies ELSE {}, WarmRuns)
  \/ LookupCommands(FirstClient, WarmShas, WarmRuns)
  \/ LazyFreeWorker

SpecWarm == InitWarm /\ [][NextWarm]_vars

\* The same server with a background thread that keeps taking the jobs
\* of its queue (bioProcessBackgroundJobs loops for ever).
SpecWarmFair == SpecWarm /\ WF_vars(LazyFreeWorker)

\* A server whose cache holds NumFill scripts, flushed asynchronously
\* while its clients keep sending scripts.
HandOffBodies == {BodyA, BodyB}

NextHandOff ==
  \/ \E body \in HandOffBodies : EvalCommand(FirstClient, body, "ok", TRUE, TRUE)
  \/ \E body \in HandOffBodies : EvalShaCommand(FirstClient, Digest(body), "ok", TRUE, TRUE)
  \/ ScriptFlush(FirstClient, "async", FALSE)
  \/ LazyFreeWorker

SpecHandOff == InitWarm /\ [][NextHandOff]_vars

\* A server whose cache holds NumFill scripts, flushed in both modes
\* while its client keeps sending scripts.
NextFlush ==
  \/ \E body \in HandOffBodies : EvalCommand(FirstClient, body, "ok", TRUE, TRUE)
  \/ \E mode \in {"sync", "async"} : ScriptFlush(FirstClient, mode, FALSE)
  \/ LazyFreeWorker

SpecFlush == InitWarm /\ [][NextFlush]_vars

\* The registry: modules register and unregister engines while scripts of
\* Lua and of HELLO are run and the cache is flushed.
EngineNames ==
  {HELLO_ENGINE_NAME, <<"h","e","l","l","o">>, StrLua}

EngineAddresses == {ModuleEngine, ModuleEngine + 1}

RegistryBodies ==
  {BodyA, BodyHelloOne, BodyHelloTwo, BodyHelloNone, BodyHelloBad}

NextRegistry ==
  \/ \E name \in EngineNames, e \in EngineAddresses : RegisterEngine(name, e)
  \/ \E name \in EngineNames, after \in {"stale", "trap"} :
       UnregisterEngine(name, after)
  \/ \E name \in EngineNames : FindEngine(name)
  \/ \E body \in RegistryBodies : EvalCommand(FirstClient, body, "ok", TRUE, TRUE)
  \/ ScriptFlush(FirstClient, "sync", FALSE)

SpecRegistry == Init /\ [][NextRegistry]_vars

\* The background thread frees a flushed cache of HELLO scripts entry by
\* entry while the main thread runs a HELLO script.
NextRace ==
  \/ EvalCommand(FirstClient, BodyHelloOne, "ok", TRUE, TRUE)
  \/ ScriptFlush(FirstClient, "async", FALSE)
  \/ WorkerTake
  \/ \E e \in DOMAIN engineMgr.heap : WorkerSetup(e)
  \/ \E crash \in BOOLEAN : WorkerMethod(crash)
  \/ WorkerFinish

SpecRace == InitHello /\ [][NextRace]_vars

\* A server started empty, with a client that debugs, in forked and in
\* synchronous sessions, between the commands of the cache.  The
\* debugging client closes its connection at the first stop.
DebugBodies == {BodyA, BodySyntax}
DebugShas == {UpperCase(Digest(BodyA)), ShaUnknown, ShaShort}
DebugRuns == {<<"ok", TRUE, TRUE>>, <<"negative", TRUE, TRUE>>}

NextDebug ==
  \/ CacheCommands(FirstClient, DebugBodies, DebugShas, DebugRuns)
  \/ DebugCommands(FirstClient, DebugBodies, DebugRuns)
  \/ \E p \in Processes : LdbLineHook(p, 1, NoAnswer)
  \/ \E p \in Processes : LdbReplReadFails(p)
  \/ \E run \in BOOLEAN : LdbEndSession(run)
  \/ LdbEndSessionChild

SpecDebug == Init /\ [][NextDebug]_vars

\* The argument of break for the line n, -n to remove it.
Signed(n) == IF n < 0 THEN <<"-">> \o Decimal(0 - n) ELSE Decimal(n)

\* The lines the breakpoints of the model are set at and removed from
\* one by one, and the request that sets more lines than there is room
\* for: 1, 2, ... LDB_BREAKPOINTS_MAX + 1.
BreakLines == {3}
BreakMany ==
  <<CmdBreak>> \o [k \in 1..(LDB_BREAKPOINTS_MAX + 1) |-> Decimal(k)]

BreakRequests ==
  {Request(<<CmdBreak, Signed(n)>>) :
     n \in BreakLines \cup {0 - k : k \in BreakLines} \cup {0, LongLines + 1}}
    \cup {Request(BreakMany), Request(<<CmdBreak>>), Request(<<CmdContinue>>)}

\* A client debugs the long script in a synchronous session and sets and
\* removes breakpoints.
NextBreak ==
  \/ ScriptDebug(FirstClient, "sync", FALSE)
  \/ \E body \in {BodyLong}, in \in {<<"ok", TRUE>>} :
       EvalCommandWithDebugging(FirstClient, body, in[1], in[2], TRUE)
  \/ LdbLineHook("server", 1, NoAnswer)
  \/ \E buf \in BreakRequests : LdbReplRead("server", buf, NoAnswer)
  \/ LdbEndSession(TRUE)
  \/ FreeClient(FirstClient)

SpecBreak == Init /\ [][NextBreak]_vars

\* The requests of the REPL of the model: every command, by its name or
\* by its letter, and a name that is no command; and what the back-end
\* answers: nothing, a value and a frame, an error without a stack, and
\* a value after a call of server.breakpoint().
ReplRequests ==
  {Request(argv) :
     argv \in {<<CmdHelp>>, <<CmdStep>>, <<<<"n">>>>, <<CmdContinue>>,
               <<CmdTrace>>, <<CmdMaxlen>>, <<CmdMaxlen, Decimal(0)>>,
               <<CmdBreak>>, <<CmdBreak, Decimal(1)>>,
               <<CmdEval, <<"x">>>>, <<CmdAbort>>,
               <<CmdValkey, <<"p","i","n","g">>>>, <<CmdRedis>>,
               <<CmdPrint>>, <<CmdPrint, <<"x">>>>, <<CmdList>>,
               <<CmdWhole>>, <<<<"f","o","o">>>>}}

ReplAnswers ==
  {NoAnswer, BackEnd(<<3>>, FALSE, <<1>>, TRUE, FALSE),
   BackEnd(<<>>, TRUE, <<>>, FALSE, FALSE),
   BackEnd(<<3>>, FALSE, <<1>>, TRUE, TRUE)}

\* A client debugs the script of two lines in a synchronous session and
\* sends every command of the REPL.
NextRepl ==
  \/ ScriptDebug(FirstClient, "sync", FALSE)
  \/ \E in \in {<<"ok", TRUE>>} :
       EvalCommandWithDebugging(FirstClient, BodyTwoLines, in[1], in[2], TRUE)
  \/ SessionOf("server", {1, 2}, ReplRequests, ReplAnswers)
  \/ \E run \in BOOLEAN : LdbEndSession(run)
  \/ FreeClient(FirstClient)

SpecRepl == Init /\ [][NextRepl]_vars

\* The limits a client asks maxlen for (a word that is no number among
\* them), and the lengths of the lines the back-end dumps: shorter than
\* every limit, one byte over the least limit, and over the default.
TrimLimits ==
  {Signed(n) : n \in {0, 1, 59, 60, 61, 0 - 1}} \cup {<<"x">>}
TrimRequests ==
  {Request(<<CmdMaxlen, limit>>) : limit \in TrimLimits}
    \cup {Request(argv) :
            argv \in {<<CmdMaxlen>>, <<CmdMaxlen, Decimal(0), Decimal(0)>>,
                      <<CmdEval, <<"x">>>>, <<CmdPrint>>, <<CmdHelp>>,
                      <<CmdContinue>>}}
TrimAnswers ==
  {BackEnd(values, FALSE, <<1>>, TRUE, FALSE) :
     values \in {<<3>>, <<61>>, <<300>>, <<300, 300>>}}

\* A client debugs the script of two lines in a synchronous session,
\* sets the limit of the replies and asks for values of several lengths.
NextTrim ==
  \/ ScriptDebug(FirstClient, "sync", FALSE)
  \/ \E in \in {<<"ok", TRUE>>} :
       EvalCommandWithDebugging(FirstClient, BodyTwoLines, in[1], in[2], TRUE)
  \/ SessionOf("server", {1}, TrimRequests, TrimAnswers)
  \/ \E run \in BOOLEAN : LdbEndSession(run)
  \/ FreeClient(FirstClient)

SpecTrim == Init /\ [][NextTrim]_vars

\* Two clients arm the debugger and debug the script of two lines in
\* synchronous sessions, one after the other; they ask for values that
\* are cut and set the limit.
HintClients == {c \in Clients : c <= 2}
HintRequests ==
  {Request(argv) :
     argv \in {<<CmdMaxlen>>, <<CmdMaxlen, Decimal(60)>>, <<CmdPrint>>,
               <<CmdEval, <<"x">>>>, <<CmdContinue>>}}
HintAnswers ==
  {BackEnd(values, FALSE, <<1>>, TRUE, FALSE) :
     values \in {<<3>>, <<300, 300>>}}

NextHint ==
  \/ \E c \in HintClients : ScriptDebug(c, "sync", FALSE)
  \/ \E c \in HintClients, in \in {<<"ok", TRUE>>} :
       EvalCommandWithDebugging(c, BodyTwoLines, in[1], in[2], TRUE)
  \/ SessionOf("server", {1}, HintRequests, HintAnswers)
  \/ \E run \in BOOLEAN : LdbEndSession(run)
  \/ \E c \in HintClients : FreeClient(c)

SpecHint == Init /\ [][NextHint]_vars

\* Several clients arm the debugger, in either mode, and disarm it, and
\* send EVAL; the sessions run in the server and in forked children.  The
\* debugging client closes its connection at the first stop.
NextSession ==
  \/ \E c \in Clients, opt \in {"yes", "sync", "no"} : ScriptDebug(c, opt, FALSE)
  \/ \E c \in Clients, in \in {<<"ok", TRUE>>} :
       EvalCommandWithDebugging(c, BodyTwoLines, in[1], in[2], TRUE)
  \/ \E p \in Processes : LdbLineHook(p, 1, NoAnswer)
  \/ \E p \in Processes : LdbReplReadFails(p)
  \/ LdbEndSession(TRUE)
  \/ LdbEndSessionChild
  \/ \E c \in Clients : FreeClient(c)
  \/ \E pid \in 1..MaxChildren : LdbRemoveChild(pid)

SpecSession == Init /\ [][NextSession]_vars

\* A client debugs scripts in forked and in synchronous sessions; fork
\* may fail.  A session ends after the script returned, failed (a body
\* that does not compile, an error at run time), was aborted from the
\* REPL, or lost its client.
ForkBodies == {BodyTwoLines, BodySyntax}
ForkRequests == {Request(<<CmdAbort>>), Request(<<CmdContinue>>)}

NextFork ==
  \/ \E opt \in {"yes", "sync"} : ScriptDebug(FirstClient, opt, FALSE)
  \/ \E body \in ForkBodies, forkok \in BOOLEAN, in \in {<<"ok", TRUE>>} :
       EvalCommandWithDebugging(FirstClient, body, in[1], in[2], forkok)
  \/ SessionSteps({1}, ForkRequests, {NoAnswer})
  \/ FreeClient(FirstClient)
  \/ \E pid \in 1..MaxChildren : LdbRemoveChild(pid)

SpecFork == Init /\ [][NextFork]_vars

\* A client debugs scripts in forked and in synchronous sessions; the
\* server waits for children that ended, of a session or not, and kills
\* the sessions that run.
ChildPids == 1..(MaxChildren + 1)

NextChildren ==
  \/ \E opt \in {"yes", "sync"} : ScriptDebug(FirstClient, opt, FALSE)
  \/ \E forkok \in BOOLEAN, in \in {<<"ok", TRUE>>} :
       EvalCommandWithDebugging(FirstClient, BodyTwoLines, in[1], in[2], forkok)
  \/ \E p \in Processes : LdbLineHook(p, 1, NoAnswer)
  \/ \E p \in Processes :
       LdbReplRead(p, Request(<<CmdContinue>>), NoAnswer)
  \/ LdbEndSession(TRUE)
  \/ LdbEndSessionChild
  \/ FreeClient(FirstClient)
  \/ \E pid \in ChildPids : LdbChildDone(pid)
  \/ LdbKillForkedSessions

SpecChildren == Init /\ [][NextChildren]_vars

\* A server whose cache holds NumFill scripts, with clients that send
\* bodies and numbers of keys that are refused.
FullBodies == {BodyA, BodyB} \cup BadBodies
FullRuns == {<<"ok", TRUE, TRUE>>, <<"negative", TRUE, TRUE>>,
             <<"too large", TRUE, TRUE>>}

NextFull == AddCommands(FirstClient, FullBodies, FullRuns)

SpecFull == InitWarm /\ [][NextFull]_vars

(***************************************************************************)
(* The header parser on its own: a body is drawn, then parsed.             *)
(***************************************************************************)
\* The flag names tried in a header: two of scripts_flags_def, one that is
\* not a flag.
HeaderFlagNames ==
  { <<"n","o","-","w","r","i","t","e","s">>,
    <<"a","l","l","o","w","-","o","o","m">>,
    <<"b","o","g","u","s">> }

HeaderEngines == { StrLua, <<"h","e","l","l","o">>, <<>> }

FlagLists == UNION { [1..n -> HeaderFlagNames] : n \in 0..MaxFlags }

\* An option of a header: flags=<names> or x=1.
HeaderOptions ==
  { [kind |-> "flags", names |-> fl] : fl \in FlagLists }
    \cup { [kind |-> "other", names |-> <<>>] }

OptionLists == UNION { [1..n -> HeaderOptions] : n \in 0..MaxOptions }

Headers == [engine : HeaderEngines, options : OptionLists, newline : BOOLEAN]

RECURSIVE Join(_, _)
Join(names, sep) ==
  IF names = <<>> THEN <<>>
  ELSE IF Len(names) = 1 THEN names[1]
  ELSE names[1] \o <<sep>> \o Join(Tail(names), sep)

RenderOption(o) ==
  IF o.kind = "flags" THEN StrFlagsEq \o Join(o.names, ",")
  ELSE <<"x","=","1">>

RECURSIVE RenderOptions(_)
RenderOptions(os) ==
  IF os = <<>> THEN <<>>
  ELSE <<" ">> \o RenderOption(os[1]) \o RenderOptions(Tail(os))

\* The body with the header h: "#!engine option ...", and a line of
\* code after the newline when there is one.
RenderHeader(h) ==
  StrShebang \o h.engine \o RenderOptions(h.options)
    \o (IF h.newline THEN <<"\n">> \o BodyA ELSE <<>>)

HeaderBody == [h \in Headers |-> RenderHeader(h)]

\* Bodies that do not start with "#!".
PlainBodies ==
  { <<>>, BodyA, BodySyntax, <<"#">>, <<" ">> \o BodyB,
    <<"#"," ","!">> \o StrLua \o <<"\n">> }

InitShebang ==
  \E body \in {HeaderBody[h] : h \in Headers} \cup PlainBodies :
    /\ InitFrom(ColdWorld)!1 /\ InitFrom(ColdWorld)!2
    /\ InitFrom(ColdWorld)!3 /\ InitFrom(ColdWorld)!4
    /\ InitFrom(ColdWorld)!5 /\ InitFrom(ColdWorld)!6
    /\ InitFrom(ColdWorld)!7 /\ InitFrom(ColdWorld)!8
    /\ InitFrom(ColdWorld)!9
    /\ last = [cmd |-> "body", arg |-> body, numkeys |-> "none",
               sha |-> NoEntry, reply |-> ReplyOf("none", <<>>),
               before |-> [scripts |-> 0, lru |-> 0, tail |-> NoEntry],
               ncompile |-> 0, ncall |-> 0, nfree |-> 0, nreset |-> 0,
               ncallback |-> 0, nmeminfo |-> 0, nsetup |-> 0,
               nteardown |-> 0, nmodule |-> 0, nested |-> FALSE,
               nhandles |-> 0, nunref |-> 0, stale |-> FALSE,
             dispatched |-> {}, panic |-> FALSE]

\* The body is parsed: the result of evalExtractShebangFlags is kept.
ExtractShebang ==
  /\ last.cmd = "body"
  /\ last' = [last EXCEPT !.cmd = "shebang",
                          !.reply = ReplyOf("shebang",
                                            evalExtractShebangFlags(last.arg))]
  /\ UNCHANGED <<evalCtx, server, engineMgr, bio_jobs, bio_worker, client, ldb, lua, child>>

SpecShebang == InitShebang /\ [][ExtractShebang]_vars

(***************************************************************************)
(* The flags of a request: processCommand calls evalGetCommandFlags before *)
(* it decides whether the command runs.                                    *)
(***************************************************************************)
\* The command flags of an EVAL (evalsha FALSE) or EVALSHA request are
\* resolved; the request is then refused or run by a later step.
GetCommandFlags(c, evalsha, arg) ==
  /\ Serving(c)
  /\ last' = [cmd |-> IF evalsha THEN "EVALSHA flags" ELSE "EVAL flags",
              arg |-> arg, numkeys |-> "none", sha |-> NoEntry,
              reply |-> ReplyOf("flags", evalGetCommandFlags(World, evalsha, arg)),
              before |-> Before,
              ncompile |-> 0, ncall |-> 0, nfree |-> 0, nreset |-> 0,
              ncallback |-> 0, nmeminfo |-> 0, nsetup |-> 0,
              nteardown |-> 0, nmodule |-> 0, nested |-> FALSE,
              nhandles |-> 0, nunref |-> 0, stale |-> FALSE,
             dispatched |-> {}, panic |-> FALSE]
  /\ UNCHANGED <<evalCtx, server, engineMgr, bio_jobs, bio_worker, client, ldb, lua, child>>

\* A body whose header names the engine and no flag.
BodyNoFlags ==
  HeaderBody[[engine |-> StrLua, options |-> <<>>, newline |-> TRUE]]

FlagsBodies == {BodyA, BodyB, BodyNoFlags, BodyBadFlag, BodyNoNewline}
FlagsShas ==
  {Digest(BodyA), UpperCase(Digest(BodyB)), Digest(BodyNoFlags),
   ShaUnknown, ShaShort}

NextFlags ==
  \/ AddCommands(FirstClient, FlagsBodies, WarmRuns)
  \/ \E arg \in FlagsBodies : GetCommandFlags(FirstClient, FALSE, arg)
  \/ \E arg \in FlagsShas : GetCommandFlags(FirstClient, TRUE, arg)

SpecFlags == Init /\ [][NextFlags]_vars

(***************************************************************************)
(* The keys of the cache: bodies with the same code and different          *)
(* headers.                                                                *)
(***************************************************************************)
\* "#!lua flags=no-writes\nreturn 1"
BodyNoWrites ==
  <<"#","!","l","u","a"," ","f","l","a","g","s","=","n","o","-","w","r","i","t","e","s","\n">>
    \o BodyA

KeyBodies == {BodyA, BodyNoFlags, BodyNoWrites}
KeyShas == {Digest(BodyNoFlags), UpperCase(Digest(BodyNoWrites)), ShaUnknown}

NextKeys == CacheCommands(FirstClient, KeyBodies, KeyShas, WarmRuns)

SpecKeys == Init /\ [][NextKeys]_vars

(***************************************************************************)
(* The properties of the script cache.                                     *)
(***************************************************************************)
\* The digests of the LRU list.
LruDigests ==
  {evalCtx.scripts_lru_list[i].value : i \in 1..Len(evalCtx.scripts_lru_list)}

\* The last command ran a script (the script may have failed).
RanScript == last.reply.kind \in {"result", "ERR script"}

\* C1: every digest of the LRU list is a key of the cache, no digest is in
\* the list twice, and an entry has an LRU node exactly when it is
\* ephemeral, that is when its digest is in the list; its node is then the
\* node that holds its digest.  An entry EVAL added is ephemeral, an entry
\* SCRIPT LOAD returned is not.
LruMembership ==
  /\ LruDigests \subseteq DOMAIN evalCtx.scripts
  /\ Cardinality(LruDigests) = Len(evalCtx.scripts_lru_list)
  /\ \A k \in DOMAIN evalCtx.scripts :
       evalCtx.scripts[k].node # NULL <=> k \in LruDigests
  /\ \A i \in 1..Len(evalCtx.scripts_lru_list) :
       /\ evalCtx.scripts_lru_list[i].id # NULL
       /\ evalCtx.scripts_lru_list[i].value \in DOMAIN evalCtx.scripts
            => evalCtx.scripts[evalCtx.scripts_lru_list[i].value].node =
                 evalCtx.scripts_lru_list[i].id
  /\ last.cmd = "EVAL" /\ RanScript /\ last.ncompile = 1
       => last.sha \in LruDigests
  /\ last.cmd = "SCRIPT LOAD" /\ last.reply.kind = "bulk"
       => last.sha \in DOMAIN evalCtx.scripts \ LruDigests

\* An eviction has happened, and the cache holds entries of both kinds.
LruMembershipWitness ==
  /\ server.stat_evictedscripts > 0
  /\ Len(evalCtx.scripts_lru_list) = LRU_LIST_LENGTH
  /\ \E k \in DOMAIN evalCtx.scripts : evalCtx.scripts[k].node = NULL

\* C2: the LRU list never holds more than 500 digests.
LruBound == Len(evalCtx.scripts_lru_list) <= LRU_LIST_LENGTH

\* EVAL added a script to a list that was at its bound.
LruBoundWitness ==
  /\ last.cmd = "EVAL" /\ RanScript /\ last.ncompile = 1
  /\ last.before.lru = LRU_LIST_LENGTH
  /\ Len(evalCtx.scripts_lru_list) = LRU_LIST_LENGTH

\* The digests of a list, in its order.
DigestsOf(l) == [i \in 1..Len(l) |-> l[i].value]

\* C3: SCRIPT LOAD of a body whose digest is an ephemeral entry takes the
\* digest out of the LRU list and clears the node of the entry; the keys
\* of the cache, every other field of the entry, every other entry and the
\* memory counter stay, nothing is compiled, and the reply is the digest.
PromotionStep ==
  (/\ last'.cmd = "SCRIPT LOAD"
   /\ Digest(last'.arg) \in DOMAIN evalCtx.scripts
   /\ evalCtx.scripts[Digest(last'.arg)].node # NULL)
  => /\ evalCtx'.scripts =
          [evalCtx.scripts EXCEPT ![Digest(last'.arg)].node = NULL]
     /\ evalCtx'.scripts_lru_list =
          SelectSeq(evalCtx.scripts_lru_list,
                    LAMBDA n : n.value # Digest(last'.arg))
     /\ Len(evalCtx'.scripts_lru_list) = Len(evalCtx.scripts_lru_list) - 1
     /\ evalCtx'.scripts_mem = evalCtx.scripts_mem
     /\ last'.ncompile = 0
     /\ last'.reply = ReplyOf("bulk", Digest(last'.arg))

Promotion == [][PromotionStep]_vars

\* SCRIPT LOAD found its body cached and took a node out of the list.
PromotionWitness ==
  /\ last.cmd = "SCRIPT LOAD" /\ last.reply.kind = "bulk"
  /\ last.ncompile = 0
  /\ Len(evalCtx.scripts_lru_list) = last.before.lru - 1
  /\ evalCtx.scripts[last.sha].node = NULL

\* C4: an entry without LRU node stays in the cache, unchanged and out of
\* the LRU list, through every command but a SCRIPT FLUSH that succeeds;
\* the entry SCRIPT LOAD returns has no LRU node.
PinnedStep ==
  /\ \A k \in DOMAIN evalCtx.scripts :
       (/\ evalCtx.scripts[k].node = NULL
        /\ ~(last'.cmd = "SCRIPT FLUSH" /\ last'.reply.kind = "OK"))
       => /\ k \in DOMAIN evalCtx'.scripts
          /\ evalCtx'.scripts[k] = evalCtx.scripts[k]
          /\ k \notin LruDigests'
  /\ last'.cmd = "SCRIPT LOAD" /\ last'.reply.kind = "bulk"
       => /\ last'.sha \in DOMAIN evalCtx'.scripts
          /\ evalCtx'.scripts[last'.sha].node = NULL

PinnedStays == [][PinnedStep]_vars

\* EVAL evicted a script while the cache held an entry without node.
PinnedStaysWitness ==
  /\ last.cmd = "EVAL" /\ last.ncompile = 1 /\ last.nfree = 1
  /\ last.before.lru = LRU_LIST_LENGTH
  /\ \E k \in DOMAIN evalCtx.scripts : evalCtx.scripts[k].node = NULL

\* C5: EVAL of a body that is not cached, with the LRU list at its bound,
\* evicts the entry of the head of the list and no other: the keys are
\* those of before without the head and with the new digest, the other
\* entries are unchanged, the list is its tail followed by the new digest.
EvictionStep ==
  (/\ last'.cmd = "EVAL" /\ last'.ncompile = 1
   /\ last'.reply.kind \in {"result", "ERR script", "ERR prepare"}
   /\ Len(evalCtx.scripts_lru_list) = LRU_LIST_LENGTH)
  => /\ last'.sha \notin DOMAIN evalCtx.scripts
     /\ DOMAIN evalCtx'.scripts =
          (DOMAIN evalCtx.scripts \ {evalCtx.scripts_lru_list[1].value})
            \cup {last'.sha}
     /\ \A k \in DOMAIN evalCtx.scripts \ {evalCtx.scripts_lru_list[1].value} :
          evalCtx'.scripts[k] = evalCtx.scripts[k]
     /\ SubSeq(evalCtx'.scripts_lru_list, 1, LRU_LIST_LENGTH - 1) =
          Tail(evalCtx.scripts_lru_list)
     /\ DigestsOf(evalCtx'.scripts_lru_list) =
          Append(Tail(DigestsOf(evalCtx.scripts_lru_list)), last'.sha)
     /\ server'.stat_evictedscripts = server.stat_evictedscripts + 1
     /\ last'.nfree = 1

Eviction == [][EvictionStep]_vars

\* After EVAL of NumFill + 2 bodies, each once: the first body is gone, the
\* others are cached.
EvictionWitness ==
  /\ last.cmd = "EVAL" /\ last.ncompile = 1
  /\ last.before.lru = LRU_LIST_LENGTH
  /\ server.stat_evictedscripts = NumFill + 2 - LRU_LIST_LENGTH
  /\ Cardinality(DOMAIN evalCtx.scripts) = LRU_LIST_LENGTH
  /\ Digest(FillerBody(1)) \notin DOMAIN evalCtx.scripts
  /\ \A i \in 2..NumFill : Digest(FillerBody(i)) \in LruDigests

\* C6: when EVAL or EVALSHA has run a cached entry with success, the list
\* is the list of before with the node of the entry moved to the tail if
\* the entry has a node, and the list of before if it has none; an entry
\* with a node that ran with success is at the tail.
TouchStep ==
  (last'.cmd \in {"EVAL", "EVALSHA"} /\ last'.reply.kind = "result")
  => /\ last'.sha \in DOMAIN evalCtx'.scripts
     /\ evalCtx'.scripts[last'.sha].node # NULL
          => evalCtx'.scripts_lru_list[Len(evalCtx'.scripts_lru_list)].value
               = last'.sha
     /\ last'.ncompile = 0
          => /\ last'.sha \in DOMAIN evalCtx.scripts
             /\ evalCtx'.scripts = evalCtx.scripts
             /\ evalCtx'.scripts_lru_list =
                  SelectSeq(evalCtx.scripts_lru_list,
                            LAMBDA n : n.value # last'.sha) \o
                  SelectSeq(evalCtx.scripts_lru_list,
                            LAMBDA n : n.value = last'.sha)
             /\ Len(evalCtx'.scripts_lru_list) = Len(evalCtx.scripts_lru_list)
             /\ evalCtx.scripts[last'.sha].node = NULL
                  => evalCtx'.scripts_lru_list = evalCtx.scripts_lru_list

Touch == [][TouchStep]_vars

\* EVALSHA ran an entry that was not at the tail and is there now.
TouchWitness ==
  /\ last.cmd = "EVALSHA" /\ last.reply.kind = "result"
  /\ Len(evalCtx.scripts_lru_list) >= 2
  /\ last.before.lru = Len(evalCtx.scripts_lru_list)
  /\ last.before.tail # last.sha
  /\ evalCtx.scripts_lru_list[Len(evalCtx.scripts_lru_list)].value = last.sha

\* C7: EVAL or SCRIPT LOAD of a body that is cached compiles nothing, uses
\* the digest the body is cached under, and leaves the keys of the cache,
\* the body, flags, engine and compiled function of every entry and the
\* memory counter as they are.
RecompileStep ==
  \A k \in DOMAIN evalCtx.scripts :
    (last'.cmd \in {"EVAL", "SCRIPT LOAD"} /\ last'.arg = evalCtx.scripts[k].body)
    => /\ last'.ncompile = 0
       /\ last'.reply.kind # "ERR numkeys" => last'.sha = k
       /\ DOMAIN evalCtx'.scripts = DOMAIN evalCtx.scripts
       /\ \A j \in DOMAIN evalCtx.scripts :
            [evalCtx'.scripts[j] EXCEPT !.node = NULL] =
            [evalCtx.scripts[j] EXCEPT !.node = NULL]
       /\ evalCtx'.scripts_mem = evalCtx.scripts_mem

Recompile == [][RecompileStep]_vars

\* EVAL ran a body that was cached.
RecompileWitness ==
  /\ last.cmd = "EVAL" /\ RanScript /\ last.ncompile = 0
  /\ last.sha \in DOMAIN evalCtx.scripts
  /\ evalCtx.scripts[last.sha].body = last.arg
  /\ last.before.scripts = Cardinality(DOMAIN evalCtx.scripts)

\* Two strings that differ at most in the case of their letters.
SameIgnoringCase(a, b) ==
  /\ Len(a) = Len(b)
  /\ \A i \in 1..Len(a) : tolower(a[i]) = tolower(b[i])

\* The keys of the cache d that s addresses.
Addressed(d, s) == {k \in DOMAIN d : SameIgnoringCase(k, s)}

\* C8: when SCRIPT FLUSH has replied OK, in any mode and for any number of
\* entries, the cache map and the LRU list are empty, the memory counter is
\* 0 and no digest that was cached is found; SCRIPT EXISTS replies 1 for
\* an argument exactly when the cache map has it, hence 0 after the flush;
\* the background thread that frees a flushed cache leaves the cache as
\* it is.
FlushStep ==
  /\ (last'.cmd = "SCRIPT FLUSH" /\ last'.reply.kind = "OK")
       => /\ DOMAIN evalCtx'.scripts = {}
          /\ evalCtx'.scripts_lru_list = <<>>
          /\ evalCtx'.scripts_mem = 0
          /\ \A d \in DOMAIN evalCtx.scripts :
               dictFind(evalCtx'.scripts, d) = NoEntry
  /\ last'.cmd = "SCRIPT EXISTS"
       => /\ Len(last'.reply.data) = Len(last'.arg)
          /\ \A j \in 1..Len(last'.arg) :
               last'.reply.data[j] =
                 IF Addressed(evalCtx.scripts, last'.arg[j]) # {} THEN 1 ELSE 0
  /\ last'.cmd = "lazyfree" => evalCtx' = evalCtx

FlushIsolation == [][FlushStep]_vars

\* SCRIPT EXISTS replied 0 for a digest of the flushed cache that the
\* background thread has not freed yet.
FlushIsolationWitness ==
  /\ last.cmd = "SCRIPT EXISTS" /\ last.reply.data = <<0>>
  /\ bio_jobs # <<>>
  /\ Addressed(bio_jobs[1].scripts, last.arg[1]) # {}

\* C9: the keys of the cache have no upper-case letter, and SCRIPT SHOW,
\* SCRIPT EXISTS and EVALSHA given a key of the cache in any case address
\* the entry of that key.
CaseStep ==
  /\ \A k \in DOMAIN evalCtx'.scripts :
       \A i \in 1..Len(k) : k[i] \notin DOMAIN LowerOfUpper
  /\ last'.cmd = "SCRIPT SHOW"
       => \A d \in Addressed(evalCtx.scripts, last'.arg) :
            last'.reply = ReplyOf("bulk", evalCtx.scripts[d].body)
  /\ last'.cmd = "SCRIPT EXISTS"
       => \A j \in 1..Len(last'.arg) :
            Addressed(evalCtx.scripts, last'.arg[j]) # {}
              => last'.reply.data[j] = 1
  /\ (last'.cmd = "EVALSHA" /\ last'.numkeys = "ok")
       => \A d \in Addressed(evalCtx.scripts, last'.arg) :
            /\ last'.sha = d
            /\ last'.reply.kind \in {"result", "ERR script", "ERR prepare"}

CaseInsensitive == [][CaseStep]_vars

\* EVALSHA ran an entry given its digest in mixed case.
CaseInsensitiveWitness ==
  /\ last.cmd = "EVALSHA" /\ last.reply.kind = "result"
  /\ last.sha \in DOMAIN evalCtx.scripts
  /\ \E i \in 1..Len(last.arg) : last.arg[i] \in DOMAIN LowerOfUpper
  /\ \E i \in 1..Len(last.arg) : last.arg[i] \in DOMAIN UpperOfLower

\* An EVALSHA that cannot find a script: its argument has not 40
\* characters, or addresses no key of the cache.
EvalShaMiss ==
  /\ last'.cmd = "EVALSHA"
  /\ Len(last'.arg) # SHA_LEN \/ Addressed(evalCtx.scripts, last'.arg) = {}

\* Nothing was compiled or called, and the cache is as it was.
NothingDone ==
  /\ last'.ncompile = 0 /\ last'.ncall = 0
  /\ evalCtx' = evalCtx

\* C10 as claimed: an EVALSHA that cannot find a script replies
\* no-such-script, compiles and calls nothing and leaves the cache.
EvalShaMissReplyStep ==
  EvalShaMiss => last'.reply.kind = "NOSCRIPT" /\ NothingDone

EvalShaMissNoScript == [][EvalShaMissReplyStep]_vars

\* C10: an EVALSHA that cannot find a script compiles and calls nothing
\* and leaves the cache.  It replies no-such-script when its argument has
\* not 40 characters; when it has, a debugging client is told to use EVAL,
\* and else a wrong number of keys is reported before the lookup; in every
\* other case the reply is no-such-script.
EvalShaMissStep ==
  EvalShaMiss
  => /\ NothingDone
     /\ last'.reply.kind =
          IF Len(last'.arg) # SHA_LEN THEN "NOSCRIPT"
          ELSE IF client[FirstClient].lua_debug THEN "ERR use EVAL"
          ELSE IF last'.numkeys # "ok" THEN "ERR numkeys"
          ELSE "NOSCRIPT"

EvalShaNeverCompiles == [][EvalShaMissStep]_vars

\* A debugging client sent EVALSHA with 40 characters that are no key of
\* the cache, which holds scripts.
EvalShaNeverCompilesWitness ==
  /\ last.cmd = "EVALSHA" /\ last.reply.kind = "ERR use EVAL"
  /\ client[FirstClient].lua_debug
  /\ DOMAIN evalCtx.scripts # {}
  /\ Addressed(evalCtx.scripts, last.arg) = {}

\* The replies that refuse a body or a number of keys.
InputErrors == {"ERR shebang", "ERR engine", "ERR compile", "ERR numkeys"}

\* C11: an EVAL or SCRIPT LOAD that is refused for its header, its engine,
\* its code or its number of keys leaves the cache map, the LRU list, the
\* memory counter and the eviction counter as they are, also when the
\* list holds 500 digests; a body with such a header, engine or code is
\* refused, and so is a number of keys that is negative or too large.
RefusedStep ==
  /\ (last'.cmd \in {"EVAL", "SCRIPT LOAD"} /\ last'.reply.kind \in InputErrors)
       => /\ evalCtx' = evalCtx
          /\ server'.stat_evictedscripts = server.stat_evictedscripts
  /\ (last'.cmd \in {"EVAL", "SCRIPT LOAD"} /\ last'.arg \in BadBodies)
       => last'.reply.kind \in InputErrors
  /\ (last'.cmd = "EVAL" /\ last'.numkeys # "ok")
       => last'.reply.kind = "ERR numkeys"

RefusedNoChange == [][RefusedStep]_vars

\* EVAL of a body that does not compile, sent when the list held 500
\* digests: nothing was evicted.
RefusedNoChangeWitness ==
  /\ last.cmd = "EVAL" /\ last.reply.kind = "ERR compile"
  /\ last.before.lru = LRU_LIST_LENGTH
  /\ Len(evalCtx.scripts_lru_list) = LRU_LIST_LENGTH
  /\ server.stat_evictedscripts = 0

\* The flag names of the options of a header.
NamesOf(h) ==
  UNION { {h.options[j].names[i] : i \in 1..Len(h.options[j].names)} :
          j \in 1..Len(h.options) }

\* A header that is well formed: it ends in a newline, every option is
\* flags=, and every name is one of the flags.
WellFormed(h) ==
  /\ h.newline
  /\ \A j \in 1..Len(h.options) : h.options[j].kind = "flags"
  /\ NamesOf(h) \subseteq scripts_flags_def

\* C12: a body with a well-formed header "#!x flags=a,b" parses to the
\* engine x and exactly the flags {a,b}, without compat-mode; a body that
\* does not start with "#!" parses to lua and exactly {compat-mode}; a
\* header without newline, with an option other than flags= or with a
\* name that is not a flag fails.
HeaderParsing ==
  last.cmd = "shebang" =>
    /\ \A h \in Headers :
         last.arg = HeaderBody[h] =>
           IF WellFormed(h)
           THEN /\ last.reply.data.rc = "C_OK"
                /\ last.reply.data.engine = h.engine
                /\ last.reply.data.flags = NamesOf(h)
                /\ SCRIPT_FLAG_EVAL_COMPAT_MODE \notin last.reply.data.flags
           ELSE last.reply.data.rc = "C_ERR"
    /\ (Len(last.arg) < 2 \/ SubSeq(last.arg, 1, 2) # <<"#","!">>) =>
         /\ last.reply.data.rc = "C_OK"
         /\ last.reply.data.engine = <<"l","u","a">>
         /\ last.reply.data.flags = {SCRIPT_FLAG_EVAL_COMPAT_MODE}

\* A header with two flags was parsed.
HeaderParsingWitness ==
  /\ last.cmd = "shebang"
  /\ last.arg = HeaderBody[[engine |-> <<"h","e","l","l","o">>,
                            options |-> <<[kind |-> "flags",
                                           names |-> << <<"n","o","-","w","r","i","t","e","s">>,
                                                        <<"a","l","l","o","w","-","o","o","m">> >>]>>,
                            newline |-> TRUE]]
  /\ last.reply.data.rc = "C_OK"
  /\ Cardinality(last.reply.data.flags) = 2

\* The keys of the cache that a request addresses: by its digest
\* argument (EVALSHA, 40 characters) or by the digest of its body (EVAL).
AddressedBy(evalsha, arg) ==
  IF evalsha /\ Len(arg) # 40 THEN {}
  ELSE Addressed(evalCtx.scripts, IF evalsha THEN arg ELSE Digest(arg))

\* The script flags a request resolves to: <<TRUE, flags>>, or <<FALSE>>
\* when there are none.
Resolved(evalsha, arg) ==
  IF AddressedBy(evalsha, arg) # {}
  THEN <<TRUE, evalCtx.scripts[CHOOSE d \in AddressedBy(evalsha, arg) : TRUE].flags>>
  ELSE IF ~evalsha /\ evalExtractShebangFlags(arg).rc = "C_OK"
  THEN <<TRUE, evalExtractShebangFlags(arg).flags>>
  ELSE <<FALSE>>

\* C13: resolving the flags of a request uses the flags of the cached
\* entry, else (EVAL) the flags of the header of the body, else (EVALSHA
\* miss, digest of another length, header that does not parse) returns
\* the command flags as they are; it also does so whenever the script
\* flags hold compat-mode.  The cache map and the LRU list stay.
PreResolveStep ==
  last'.cmd \in {"EVAL flags", "EVALSHA flags"} =>
    LET r == Resolved(last'.cmd = "EVALSHA flags", last'.arg)
        f == last'.reply.data
    IN /\ evalCtx' = evalCtx
       /\ f.verbatim <=> (~r[1] \/ SCRIPT_FLAG_EVAL_COMPAT_MODE \in r[2])
       /\ ~f.verbatim => f.script_flags = r[2]

PreResolve == [][PreResolveStep]_vars

\* The flags of an EVALSHA were taken from the entry cached for the
\* digest, given in upper case.
PreResolveWitness ==
  /\ last.cmd = "EVALSHA flags"
  /\ last.arg = UpperCase(Digest(BodyB))
  /\ ~last.reply.data.verbatim
  /\ last.reply.data.script_flags = {<<"n","o","-","w","r","i","t","e","s">>}

\* What a step does to the counters of lazyfree.c, for the N entries the
\* cache holds before it.
LazyCountersOf(N) ==
  /\ (last'.cmd = "SCRIPT FLUSH" /\ last'.reply.kind = "OK"
        /\ last'.arg = <<"async">> /\ N > 64) =>
       /\ server'.lazyfree_objects = server.lazyfree_objects + N
       /\ server'.lazyfreed_objects = server.lazyfreed_objects
       /\ Len(bio_jobs') = Len(bio_jobs) + 1
       /\ DOMAIN bio_jobs'[Len(bio_jobs')].scripts = DOMAIN evalCtx.scripts
  /\ (last'.cmd = "SCRIPT FLUSH"
        /\ (N <= 64 \/ last'.arg = <<"sync">> \/ last'.reply.kind # "OK")) =>
       /\ server' = server
       /\ bio_jobs' = bio_jobs
  /\ last'.cmd = "lazyfree" =>
       /\ bio_jobs # <<>> /\ bio_jobs' = Tail(bio_jobs)
       /\ server'.lazyfree_objects
            = server.lazyfree_objects - Cardinality(DOMAIN bio_jobs[1].scripts)
       /\ server'.lazyfreed_objects
            = server.lazyfreed_objects + Cardinality(DOMAIN bio_jobs[1].scripts)
       /\ last'.nfree = Cardinality(DOMAIN bio_jobs[1].scripts)
  /\ last'.cmd \notin {"SCRIPT FLUSH", "lazyfree"} =>
       /\ server'.lazyfree_objects = server.lazyfree_objects
       /\ server'.lazyfreed_objects = server.lazyfreed_objects
       /\ bio_jobs' = bio_jobs

LazyCountersStep == LazyCountersOf(Cardinality(DOMAIN evalCtx.scripts))

\* C14: an asynchronous flush of N > 64 entries raises the pending
\* counter by N as it queues the job; the background thread, which runs
\* every queued job in the end, lowers it by N and raises the freed counter
\* by N; the pending counter is never negative; a flush of at most 64
\* entries frees them in place and changes neither counter.
LazyCounters ==
  /\ [][LazyCountersStep]_vars
  /\ [](server.lazyfree_objects >= 0)
  /\ (server.lazyfree_objects > 0) ~> (server.lazyfree_objects = 0)

\* The background thread has freed a flushed cache of 500 entries.
LazyCountersWitness ==
  /\ last.cmd = "lazyfree"
  /\ last.nfree = LRU_LIST_LENGTH
  /\ server.lazyfreed_objects = LRU_LIST_LENGTH
  /\ server.lazyfree_objects = 0
  /\ bio_jobs = <<>>

\* The compiled functions and list nodes that a cache map and LRU list
\* reference.
FunctionsIn(scripts) == {scripts[k].script : k \in DOMAIN scripts}
NodesIn(scripts, lru) ==
  (NodeIds(lru) \cup {scripts[k].node : k \in DOMAIN scripts}) \ {0}

\* Nothing the main thread can reach from evalCtx, and nothing another
\* job holds, is held by the queued job i.
Unreachable(i) ==
  /\ FunctionsIn(bio_jobs[i].scripts) \cap FunctionsIn(evalCtx.scripts) = {}
  /\ NodesIn(bio_jobs[i].scripts, bio_jobs[i].scripts_lru_list)
       \cap NodesIn(evalCtx.scripts, evalCtx.scripts_lru_list) = {}
  /\ \A j \in 1..Len(bio_jobs) :
       j # i => /\ FunctionsIn(bio_jobs[i].scripts)
                    \cap FunctionsIn(bio_jobs[j].scripts) = {}
                /\ NodesIn(bio_jobs[i].scripts, bio_jobs[i].scripts_lru_list)
                    \cap NodesIn(bio_jobs[j].scripts,
                                 bio_jobs[j].scripts_lru_list) = {}

\* The entries a step of the main thread hands to a job it queues.
HandedOver ==
  UNION {FunctionsIn(bio_jobs'[i].scripts) :
         i \in (Len(bio_jobs) + 1)..Len(bio_jobs')}

HandOffStep ==
  /\ last'.cmd # "lazyfree" =>
       /\ Len(bio_jobs') >= Len(bio_jobs)
       /\ SubSeq(bio_jobs', 1, Len(bio_jobs)) = bio_jobs
       /\ HandedOver \in {{}, FunctionsIn(evalCtx.scripts)}
       /\ last'.nfree
            = Cardinality(FunctionsIn(evalCtx.scripts)
                            \ (FunctionsIn(evalCtx'.scripts) \cup HandedOver))
       /\ HandedOver # {} => last'.ncallback = 0
  /\ last'.cmd = "lazyfree" =>
       /\ bio_jobs # <<>> /\ bio_jobs' = Tail(bio_jobs)
       /\ last'.nfree = Cardinality(FunctionsIn(bio_jobs[1].scripts))
       /\ last'.ncallback = Len(bio_jobs[1].engine_callbacks)
       /\ evalCtx' = evalCtx

\* C15: what an asynchronous flush hands to its job (cache map, LRU
\* list, entries, teardown callbacks of the engines) is referenced by
\* nothing evalCtx holds from then on; no step of the main thread changes
\* a queued job or frees what it holds; the background thread frees every
\* entry and runs every callback of a job, once, as it takes the job off
\* the queue.
HandOff ==
  /\ [](\A i \in 1..Len(bio_jobs) : Unreachable(i))
  /\ [][HandOffStep]_vars

\* The background thread has freed the 500 entries of a flushed cache
\* and run the callback, after the main thread cached a new script.
HandOffWitness ==
  /\ last.cmd = "lazyfree"
  /\ last.nfree = LRU_LIST_LENGTH
  /\ last.ncallback = 1
  /\ evalCtx.scripts # <<>>
  /\ bio_jobs = <<>>

(***************************************************************************)
(* The properties of the engine registry.                                  *)
(***************************************************************************)
\* An engine is registered in engines under a name that equals name,
\* ignoring case.
RegisteredIn(engines, name) ==
  \E n \in DOMAIN engines : LowerCase(n) = LowerCase(name)

RegistryStep ==
  /\ last'.cmd = "register" =>
       IF RegisteredIn(engineMgr.engines, last'.arg)
       THEN /\ last'.reply.kind = "C_ERR"
            /\ engineMgr' = engineMgr
       ELSE /\ last'.reply.kind = "C_OK"
            /\ \A name \in EngineNames :
                 RegisteredIn(engineMgr'.engines, name)
                   <=> \/ RegisteredIn(engineMgr.engines, name)
                       \/ LowerCase(name) = LowerCase(last'.arg)
  /\ last'.cmd = "unregister" =>
       IF RegisteredIn(engineMgr.engines, last'.arg)
       THEN /\ last'.reply.kind = "C_OK"
            /\ \A name \in EngineNames :
                 RegisteredIn(engineMgr'.engines, name)
                   <=> /\ RegisteredIn(engineMgr.engines, name)
                       /\ LowerCase(name) # LowerCase(last'.arg)
       ELSE /\ last'.reply.kind = "C_ERR"
            /\ engineMgr' = engineMgr
  /\ last'.cmd \notin {"register", "unregister"} =>
       engineMgr'.engines = engineMgr.engines
  /\ last'.cmd = "find" =>
       IF RegisteredIn(engineMgr.engines, last'.arg)
       THEN /\ last'.reply.data # NULL
            /\ engineMgr.heap[last'.reply.data].state = "live"
            /\ LowerCase(engineMgr.heap[last'.reply.data].name)
                 = LowerCase(last'.arg)
       ELSE last'.reply.data = NULL

\* C17: a registration under a name that equals, ignoring case, the name
\* of a registered engine is refused and leaves the registry (descriptors,
\* engines, running total) as it was; any other registration adds the
\* name, an unregistration removes it, nothing else changes the names,
\* and a lookup finds a descriptor exactly for the names registered and
\* not unregistered since.
RegistryNames == [][RegistryStep]_vars

\* "hello" was refused while HELLO is registered.
RegistryNamesWitness ==
  /\ last.cmd = "register"
  /\ last.arg = <<"h","e","l","l","o">>
  /\ last.reply.kind = "C_ERR"
  /\ HELLO_ENGINE_NAME \in DOMAIN engineMgr.engines

\* What the registration of the engine with the descriptor d added to the
\* running total: HELLO is registered with no program allocated.
AccumulatedAtRegistration(d) ==
  SizeofScriptingEngine + sdsAllocSize(d.name)
    + (IF d.methods = "lua" THEN SizeofLuaEngineCtx ELSE SizeofHelloLangCtx)

RECURSIVE AccumulatedBy(_, _)
AccumulatedBy(mgr, names) ==
  IF names = {} THEN 0
  ELSE LET n == CHOOSE x \in names : TRUE
       IN AccumulatedAtRegistration(mgr.heap[mgr.engines[n]])
            + AccumulatedBy(mgr, names \ {n})

\* C18: the running total of memory overhead is the sum of what the
\* registrations of the registered engines added, so that an engine
\* registered and unregistered leaves the total as it was, and the total
\* is never below zero.
MemoryOverheadSum ==
  /\ engineMgr.total_memory_overhead
       = AccumulatedBy(engineMgr, DOMAIN engineMgr.engines)
  /\ engineMgr.total_memory_overhead >= 0

\* C20: a compilation for EVAL or SCRIPT LOAD that returns functions
\* returns one, and the assertion on their number holds.
OneCompiledFunction ==
  (/\ last.cmd \in {"EVAL", "SCRIPT LOAD"}
   /\ last.ncompile = 1
   /\ last.reply.kind # "ERR compile")
    => /\ last.nhandles = 1
       /\ ~last.panic

(***************************************************************************)
(* The engines and the two threads.                                        *)
(***************************************************************************)
\* A step of the main thread: the background thread stays where it is.
MainThreadStep == bio_worker' = bio_worker /\ last'.cmd \notin {"init"}

\* C16: while the background thread is inside the engine free method of
\* an entry of a flushed cache, between the set-up and the tear-down of
\* the module context, no step of the main thread dispatches a method on
\* the same engine or sets up or tears down its module context.
NoConcurrentDispatch ==
  [][(bio_worker.pc = "method" /\ MainThreadStep)
       => bio_worker.engine \notin last'.dispatched]_vars

\* C19: a command sets the module context up once before, and tears it
\* down once after, every method it dispatches on an engine of a module;
\* no set-up finds the context set and no tear-down finds it not set; a
\* command that dispatches on built-in engines only sets up and tears
\* down none.
ModuleContextPairs ==
  /\ ~last.nested
  /\ (~last.panic /\ last.cmd # "lazyfree setup")
       => /\ last.nsetup = last.nmodule
          /\ last.nteardown = last.nmodule
  /\ (\A e \in last.dispatched : engineMgr.heap[e].module = NULL)
       => last.nsetup = 0 /\ last.nteardown = 0

(***************************************************************************)
(* The properties of the debugger.                                         *)
(***************************************************************************)
\* The lines held as breakpoints, in the order of the array.
Breakpoints(l) == [j \in 1..l.bpcount |-> l.bp[j - 1]]

\* The step is a round of the REPL of the server that ran the command
\* named name; its request is lua'.did.argv, its replies lua'.did.wrote.
ReplRan(name) ==
  /\ lua.pc = "repl" /\ lua'.did.op = "read"
  /\ lua'.did.argv # <<>> /\ IsCmd(lua'.did.argv[1], name)

\* The text of the last line of the last reply a step of the session
\* wrote, "" if there is none.
LastLine(did) ==
  IF did.wrote = <<>> THEN ""
  ELSE LET lines == did.wrote[Len(did.wrote)].lines
       IN IF lines = <<>> THEN "" ELSE lines[Len(lines)].text

\* What break with the one argument line does to the breakpoints.
BreakOneLine(line) ==
  /\ line = 0 => ldb'.bpcount = 0
  /\ line \notin 1..ldb.lines =>
       /\ ~ldbIsBreakpoint(ldb', line)
       /\ ldb'.bpcount <= ldb.bpcount
  /\ line > ldb.lines => Breakpoints(ldb') = Breakpoints(ldb)
  /\ line \in 1..ldb.lines /\ ldb.bpcount = LDB_BREAKPOINTS_MAX =>
       /\ Breakpoints(ldb') = Breakpoints(ldb)
       /\ LastLine(lua'.did) = "Too many breakpoints set."
  /\ line < 0 /\ ~ldbIsBreakpoint(ldb, 0 - line) =>
       /\ Breakpoints(ldb') = Breakpoints(ldb)
       /\ LastLine(lua'.did) = "No breakpoint in the specified line."

BreakStep ==
  /\ ldb'.bpcount \in 0..LDB_BREAKPOINTS_MAX
  /\ ReplRan(CmdBreak) /\ Len(lua'.did.argv) = 2
       /\ string2l(lua'.did.argv[2]).ok =>
       BreakOneLine(string2l(lua'.did.argv[2]).value)
  /\ ReplRan(CmdBreak) /\ lua'.did.argv = BreakMany /\ ldb.bpcount = 0 =>
       /\ Breakpoints(ldb') = [k \in 1..LDB_BREAKPOINTS_MAX |-> k]
       /\ LastLine(lua'.did) = "Too many breakpoints set."

\* C27: the debugger never holds more than 64 breakpoints: break with 65
\* valid lines stores the first 64 and answers the 65th with "Too many
\* breakpoints set.", a valid line is refused in the same way and changes
\* nothing when 64 are held, removing a line that is no breakpoint changes
\* nothing and says so, break 0 leaves no breakpoint, and a line below 1
\* or beyond the last line of the script is never added.
BreakpointsBounded == [][BreakStep]_vars

\* The session holds 64 breakpoints and has just refused the 65th.
BreakpointsBoundedWitness ==
  /\ lua.pc = "repl" /\ lua.did.op = "read" /\ lua.did.argv = BreakMany
  /\ ldb.bpcount = LDB_BREAKPOINTS_MAX
  /\ LastLine(lua.did) = "Too many breakpoints set."

\* C28: break -L for a line L that is a breakpoint removes exactly L: the
\* lines held afterwards are those held before without L, in the same
\* order, and there is one less of them.
RemoveStep ==
  ReplRan(CmdBreak) /\ Len(lua'.did.argv) = 2
    /\ string2l(lua'.did.argv[2]).ok
    /\ string2l(lua'.did.argv[2]).value < 0
    /\ ldbIsBreakpoint(ldb, 0 - string2l(lua'.did.argv[2]).value) =>
    /\ ldb'.bpcount = ldb.bpcount - 1
    /\ Breakpoints(ldb') =
         SelectSeq(Breakpoints(ldb),
                   LAMBDA x : x # 0 - string2l(lua'.did.argv[2]).value)
    /\ \A x \in 1..ldb.lines :
         ldbIsBreakpoint(ldb', x) <=>
           (ldbIsBreakpoint(ldb, x) /\
            x # 0 - string2l(lua'.did.argv[2]).value)

RemoveExact == [][RemoveStep]_vars

\* A round of the REPL of the server that ran a command.
ReplRound ==
  lua.pc = "repl" /\ lua'.did.op = "read" /\ lua'.did.argv # <<>>

\* The round gave the control back to the back-end.
ReplGaveBack ==
  /\ lua'.pc = "script" /\ ~lua'.aborted
  /\ lua'.did.ret = "C_OK" /\ lua'.did.wrote = <<>>

\* The round wrote one reply (of no line for a trace without frame of the
\* script), on the connection of the debugger, left no log line pending
\* and reads the next request.
ReplAnswered ==
  /\ lua'.pc = "repl" /\ ~lua'.aborted
  /\ Len(lua'.did.wrote) = 1
  /\ lua'.did.wrote[1].conn = ldb.conn
  /\ ldb'.logs = <<>>

ReplStep ==
  ReplRound =>
    IF IsCmd(lua'.did.argv[1], CmdStep) \/ IsCmd(lua'.did.argv[1], CmdNext)
    THEN ReplGaveBack /\ ldb'.step = 1
    ELSE IF IsCmd(lua'.did.argv[1], CmdContinue)
    THEN ReplGaveBack /\ ldb'.step = 0
    ELSE IF IsCmd(lua'.did.argv[1], CmdAbort)
    THEN /\ lua'.did.ret = "raised" /\ lua'.aborted /\ lua'.pc = "script"
         /\ lua'.did.raised = "script aborted for user request"
         /\ lua'.did.wrote = <<>>
    ELSE ReplAnswered

Unattended(l, u) ==
  /\ u.did.op = "readfail" =>
       l.step = 0 /\ l.bpcount = 0 /\ u.pc = "script" /\ u.did.ret = "C_ERR"
  /\ u.lost =>
       /\ u.pc # "repl"
       /\ u.did.op # "read"
       /\ ~(u.did.op = "hook" /\ u.did.entered)

\* C29: when a read of the REPL fails, the REPL returns to the back-end
\* with the step mode clear and the breakpoints removed, and the script
\* runs on without the debugger: no later entry of the hook waits for a
\* request of the REPL or runs one.
RunsUnattended == Unattended(ldb, lua) /\ Unattended(child.ldb, child.lua)

\* The step starts a synchronous session for the EVAL of client c.
StartsSync(c) == lua.pc = "idle" /\ lua'.pc # "idle" /\ lua'.client = c

\* The step forks a child for the EVAL of client c.
StartsForked(c) ==
  Len(ldb'.children) > Len(ldb.children) /\ child'.lua.client = c

EvalModeStep ==
  \A c \in Clients :
    /\ StartsSync(c) => client[c].asked = "sync"
    /\ StartsForked(c) => client[c].asked = "yes"

\* C24: the last SCRIPT DEBUG of a client decides how its next EVAL runs:
\* in a forked session after YES, in the server after SYNC, without the
\* debugger after NO.
EvalMode == [][EvalModeStep]_vars

\* The session of the script u with the debugger l works on the
\* connection of the client whose EVAL started it: the connection the
\* debugger holds, blocks and reads from, and that of every reply the
\* last step wrote.
OwnConnection(l, u) ==
  u.pc \in {"script", "repl"} =>
    /\ l.conn = u.client
    /\ \A i \in 1..Len(u.did.wrote) : u.did.wrote[i].conn = u.client

\* C25: a debugging session is bound to the connection of the client
\* whose EVAL started it, however the SCRIPT DEBUG and EVAL commands of
\* several clients interleave.
SessionConnection ==
  /\ OwnConnection(ldb, lua)
  /\ OwnConnection(child.ldb, child.lua)
  /\ lua.pc \in {"script", "repl"} => client[lua.client].blocking

\* The debugger as a session finds it when it starts.
Fresh(l) ==
  /\ l.step = 1 /\ l.bpcount = 0 /\ l.luabp = 0
  /\ l.cbuf = <<>> /\ l.logs = <<>>
  /\ l.maxlen = LDB_MAX_LEN_DEFAULT /\ l.maxlen_hint_sent = 0

FreshStep ==
  /\ (\E c \in Clients : StartsSync(c)) => Fresh(ldb')
  /\ (\E c \in Clients : StartsForked(c)) => Fresh(child'.ldb)
  /\ ldb'.active <=> lua'.pc \in {"script", "repl"}

\* C26: every session starts with the debugger set anew (step mode on, no
\* breakpoint, no pending break, empty buffer and log, the default limit
\* of 256 and no hint sent), whatever the sessions before it did, and
\* the debugger is active only from the start of a session to its end.
FreshSession == [][FreshStep]_vars

\* The lines of src, joined by \n.
RECURSIVE JoinLines(_)
JoinLines(src) ==
  IF Len(src) = 0 THEN <<>>
  ELSE IF Len(src) = 1 THEN src[1]
  ELSE src[1] \o <<"\n">> \o JoinLines(Tail(src))

\* The debugger l of a process that goes on with the script u of the
\* EVAL of client c: it is active and holds the lines of the body.
GoesOn(l, u, c) ==
  /\ l.active /\ u.pc = "script" /\ u.client = c
  /\ l.lines = Len(l.src) /\ l.lines > 0
  /\ \A i \in 1..l.lines : \A k \in 1..Len(l.src[i]) : l.src[i][k] # "\n"
  /\ Len(JoinLines(l.src)) <= Len(u.body)
  /\ JoinLines(l.src) = SubSeq(u.body, 1, Len(JoinLines(l.src)))
  /\ \A k \in (Len(JoinLines(l.src)) + 1)..Len(u.body) :
       u.body[k] \in {"\n", "\r"}

ForkedStep ==
  \A c \in Clients :
    /\ StartsForked(c) =>
         /\ ldb'.children = Append(ldb.children, child'.pid)
         /\ child'.pid # NULL
         /\ \A i \in 1..Len(ldb.children) : ldb.children[i] # child'.pid
         /\ client'[c].closing /\ ~client'[c].lua_debug
         /\ ~ldb'.active /\ lua.pc = "idle" /\ lua' = lua
         /\ evalCtx' = evalCtx /\ last'.ncompile = 0 /\ last'.ncall = 0
         /\ last'.dispatched = {}
         /\ GoesOn(child'.ldb, child'.lua, c)
    /\ StartsSync(c) =>
         /\ GoesOn(ldb', lua', c)
         /\ ldb'.children = ldb.children /\ child' = child
         /\ ~client'[c].closing
    /\ ldb'.active /\ ~ldb.active => StartsSync(c) \/ lua'.client # c

\* C21: the parent of a forked session records the pid of the child,
\* drops its client, leaves the debugger inactive and neither compiles
\* nor runs the script, its cache unchanged; the child, and the server
\* itself in a synchronous session, sets the debugger active, splits the
\* body into lines and goes on to run the script.
ForkedParent == [][ForkedStep]_vars

\* The server has forked the child that runs the session of a script of
\* two lines, and has dropped the client.
ForkedParentWitness ==
  /\ child.pid # NULL /\ child.lua.pc = "script" /\ child.ldb.active
  /\ child.ldb.lines = 2 /\ ldb.children = <<child.pid>>
  /\ ~ldb.active /\ client[child.lua.client].closing
  /\ last.cmd = "EVAL" /\ last.reply.kind = "none"

\* The step is an EVAL of a debugging client whose fork failed.
ForkFailed == last'.reply.kind = "ERR fork" /\ last' # last

ForkFailedStep ==
  ForkFailed =>
    /\ last'.cmd = "EVAL"
    /\ ~ldb'.active /\ ldb'.children = ldb.children
    /\ child' = child /\ lua' = lua /\ lua.pc = "idle"
    /\ evalCtx' = evalCtx /\ last'.ncompile = 0 /\ last'.ncall = 0
    /\ last'.dispatched = {}
    /\ \E c \in Clients :
         /\ client[c].lua_debug
         /\ ~client'[c].lua_debug /\ ~client'[c].lua_debug_sync
         /\ ~client'[c].closing /\ ~client'[c].blocking
         /\ \A o \in Clients \ {c} : client'[o] = client[o]

\* C22: when the fork of a forked session fails, the client gets an
\* error and no session starts: the debugger stays inactive, no child is
\* recorded, the script is neither compiled nor run, the end of a session
\* is not run, and the client no longer debugs.
ForkFailure == [][ForkFailedStep]_vars

\* The fork has just failed while the child of an earlier session lives.
ForkFailureWitness ==
  /\ last.cmd = "EVAL" /\ last.reply.kind = "ERR fork"
  /\ ~client[FirstClient].lua_debug /\ ~ldb.active /\ lua.pc = "idle"
  /\ Len(ldb.children) = 1 /\ child.lua.pc \in {"script", "repl"}

\* ldbEndSession has run in the step, for the script u of the debugger l:
\* the end marker is the last line it wrote and no line is left pending.
Ended(l, u) ==
  /\ u.did.op = "end" /\ u.did.wrote # <<>>
  /\ LastLine(u.did) = "<endsession>"
  /\ \A i \in 1..Len(u.did.wrote) : u.did.wrote[i].conn = l.conn
  /\ l.logs = <<>>

EndStep ==
  /\ lua.pc # "idle" /\ lua'.pc = "idle" =>
       /\ Ended(ldb', lua')
       /\ ~ldb'.active /\ ldb'.lines = 0
       /\ ~client'[ldb.conn].blocking
       /\ client'[lua.client].closing
  /\ child.lua.pc \in {"script", "repl"} /\ child'.lua.pc \notin {"script", "repl"} =>
       \/ Ended(child'.ldb, child'.lua) /\ child'.lua.pc = "exited"
       \/ child' = NoChild
  /\ lua'.did.op = "end" /\ lua' # lua => lua.pc = "script"
  /\ child'.lua.did.op = "end" /\ child'.lua # child.lua =>
       child.lua.pc = "script"
  /\ lua.pc = "idle" /\ lua'.pc # "idle" => lua'.did.op = "start"
  /\ (\E c \in Clients : StartsForked(c)) \/ ForkFailed => lua'.did = lua.did

\* C23: the end of a session runs exactly for a session whose start went
\* on, however the script ended: it writes the end marker as the last log
\* line and leaves no line pending; the forked child then exits, and the
\* server, after a synchronous session, sets the connection non-blocking,
\* marks the client to be closed after the reply and is no longer active.
SessionEnd == [][EndStep]_vars

\* A synchronous session has ended with a line of server.debug() pending:
\* the end marker follows it in the last reply.
SessionEndWitness ==
  /\ lua.pc = "idle" /\ lua.did.op = "end"
  /\ Len(lua.did.wrote[1].lines) = 2
  /\ LastLine(lua.did) = "<endsession>"
  /\ last.cmd = "EVAL" /\ ~ldb.active /\ client[lua.client].closing
(***************************************************************************)
(* The properties of the limit of the replies.                             *)
(***************************************************************************)
\* What maxlen with the limit n, a number in decimal, leaves.
MaxlenAsked(n) ==
  /\ n \in 1..59 => ldb'.maxlen = 60
  /\ n = 0 => ldb'.maxlen = 0
  /\ n >= 60 => ldb'.maxlen = n

MaxlenStep ==
  /\ ldb'.maxlen = 0 \/ ldb'.maxlen >= 60
  /\ ReplRan(CmdMaxlen) /\ Len(lua'.did.argv) = 2
       /\ string2l(lua'.did.argv[2]).ok =>
       MaxlenAsked(string2l(lua'.did.argv[2]).value)
  /\ ReplRan(CmdMaxlen) /\ Len(lua'.did.argv) = 1 =>
       ldb'.maxlen = ldb.maxlen

\* C31: the limit of the replies is always 0 or at least 60: maxlen n
\* sets it to 60 for n in 1..59, to 0 for n = 0 and to n for n of 60 or
\* more, and maxlen without an argument leaves it as it is.
MaxlenClamped == [][MaxlenStep]_vars

\* maxlen 1 has set the limit to 60.
MaxlenClampedWitness ==
  /\ lua.pc = "repl" /\ lua.did.op = "read"
  /\ lua.did.argv = <<CmdMaxlen, Decimal(1)>> /\ ldb.maxlen = 60
\* The bytes of a line whose bytes the model holds: a line of a dump,
\* of the help, or the hint.
Measured(line) ==
  \/ line.text \in DumpTexts \/ line.text = MaxlenHint
  \/ \E j \in 1..LdbHelpLines : LdbHelpText[j] = line.text
LineBytes(line) ==
  IF line.text \in DumpTexts THEN line.n ELSE Len(line.text)

\* The line is within the limit m, or it was cut to m bytes and the
\* ellipsis.
Capped(line, m) ==
  IF m = 0 \/ LineBytes(line) <= m THEN line.tail = ""
  ELSE line.tail = Ellipsis /\ LineBytes(line) = m + 4

\* The line is what the limit m makes of a dump of n bytes.
DumpOf(line, n, m) ==
  IF m # 0 /\ n > m
  THEN line.n = m + 4 /\ line.tail = Ellipsis
  ELSE line.n = n /\ line.tail = ""

DumpStep ==
  lua'.did.op = "read" =>
    LET lines == WroteLines(lua'.did.wrote)
        dumps == SelectSeq(lines, LAMBDA line : line.text \in DumpTexts)
    IN /\ Len(dumps) = Len(lua'.did.values)
       /\ \A k \in 1..Len(dumps) :
            DumpOf(dumps[k], lua'.did.values[k], ldb.maxlen)
       /\ \A i \in 1..Len(lines) :
            lines[i].text \notin DumpTexts => lines[i].tail = ""

\* C32 as amended: a line of a dump (a value, a reply of a command)
\* longer than maxlen is sent with maxlen + 4 bytes, its first maxlen
\* bytes and the ellipsis; a dump of at most maxlen bytes is sent as it
\* is, and with maxlen 0 no dump is cut.  The other lines of the log (the
\* help, the answers of the commands, the hint) are sent whole, whatever
\* their length.
DumpsTrimmed == [][DumpStep]_vars

\* A dump of 61 bytes was sent with 64 bytes under the limit 60.
DumpsTrimmedWitness ==
  /\ lua.pc = "repl" /\ lua.did.op = "read" /\ ldb.maxlen = 60
  /\ lua.did.values = <<61>>
  /\ \E i \in 1..Len(WroteLines(lua.did.wrote)) :
       /\ WroteLines(lua.did.wrote)[i].n = 64
       /\ WroteLines(lua.did.wrote)[i].tail = Ellipsis

LineStep ==
  lua'.did.op = "read" =>
    \A i \in 1..Len(WroteLines(lua'.did.wrote)) :
      Measured(WroteLines(lua'.did.wrote)[i]) =>
        Capped(WroteLines(lua'.did.wrote)[i], ldb'.maxlen)

\* C32: every line of the log longer than maxlen is sent with maxlen + 4
\* bytes, and every line of at most maxlen bytes as it is.
LinesTrimmed == [][LineStep]_vars
\* The hint is the line after the line at position i.
HintAfter(lines, i) == i < Len(lines) /\ lines[i + 1].text = MaxlenHint

\* The least of a set of positions that is not empty.
First(positions) == CHOOSE i \in positions : \A j \in positions : i <= j

\* The step sends the first line of the session of the server that was
\* cut.
FirstCut == ~lua.cut /\ lua'.cut

HintStep ==
  LET lines == WroteLines(lua'.did.wrote)
  IN /\ lua'.hints <= 1
     /\ \A i \in HintLines(lines) : i > 1 /\ lines[i - 1].tail = Ellipsis
     /\ CutLines(lines) # {} /\ ldb.maxlen_hint_sent = 0 =>
          /\ HintAfter(lines, First(CutLines(lines)))
          /\ Cardinality(HintLines(lines)) = 1
     /\ lua.told \/ lua.cut \/ ldb.maxlen_hint_sent # 0 =>
          HintLines(lines) = {}
     /\ ldb.maxlen_hint_sent # 0 /\ ldb'.maxlen_hint_sent = 0 =>
          last'.cmd = "SCRIPT DEBUG" /\ lua.pc = "idle"
     /\ ldb.maxlen_hint_sent = 0 /\ ldb'.maxlen_hint_sent # 0 =>
          HintLines(lines) # {} \/ (~lua.told /\ lua'.told)

HintFirstStep ==
  LET lines == WroteLines(lua'.did.wrote)
  IN /\ lua'.hints <= 1
     /\ FirstCut =>
          /\ HintAfter(lines, First(CutLines(lines)))
          /\ Cardinality(HintLines(lines)) = 1
     /\ lua.cut => HintLines(lines) = {}

Listed(l) == {l.children[i] : i \in 1..Len(l.children)}

\* The step forks a session, waits for a child, kills the sessions.
ForkStarted ==
  child' # child /\ child'.lua.did.op = "start" /\ child'.lua.pc = "script"
Waited == last' # last /\ last'.cmd = "wait"
Killed == last' # last /\ last'.cmd = "kill"

\* ldbRemoveChild(pid) returned ret.
RemovedChild(pid, ret) ==
  IF pid \in Listed(ldb)
  THEN /\ ret # 0
       /\ ldb'.children = SelectSeq(ldb.children, LAMBDA p : p # pid)
       /\ Len(ldb'.children) = Len(ldb.children) - 1
  ELSE ret = 0 /\ ldb'.children = ldb.children

ChildrenStep ==
  /\ Cardinality(Listed(ldb')) = Len(ldb'.children)
  /\ ForkStarted =>
       /\ child'.pid \notin Listed(ldb)
       /\ ldb'.children = Append(ldb.children, child'.pid)
  /\ Waited => RemovedChild(last'.reply.data[1], last'.reply.data[2])
  /\ Killed =>
       /\ last'.reply.data = ldb.children
       /\ ldb'.children = <<>> /\ ldbPendingChildren(ldb') = 0
  /\ ~ForkStarted /\ ~Waited /\ ~Killed => ldb'.children = ldb.children

AddOneLine(line) ==
  /\ ldbAddBreakpoint(ldb, line).ret = 1
  /\ ldbIsBreakpoint(ldb', line)
  /\ Breakpoints(ldb') =
       IF ldbIsBreakpoint(ldb, line) THEN Breakpoints(ldb)
       ELSE Append(Breakpoints(ldb), line)
  /\ LastLine(lua'.did) # "Wrong line number."

AddStep ==
  /\ ReplRan(CmdBreak) /\ Len(lua'.did.argv) = 2
       /\ string2l(lua'.did.argv[2]).ok
       /\ string2l(lua'.did.argv[2]).value \in 1..ldb.lines
       /\ ldb.bpcount # LDB_BREAKPOINTS_MAX =>
       AddOneLine(string2l(lua'.did.argv[2]).value)
  /\ \A line \in 1..ldb.lines :
       ldbAddBreakpoint(ldb, line).ret = 0 =>
         ldb.bpcount = LDB_BREAKPOINTS_MAX /\ ~ldbIsBreakpoint(ldb, line)
  /\ \A line \in {0, ldb.lines + 1} : ldbAddBreakpoint(ldb, line).ret = 0

\* C35: ldbAddBreakpoint returns 1 when it adds the line and when the
\* line is a breakpoint already, and 0 only for a line that is not in
\* the script or when there is no room: break with a valid line that is
\* a breakpoint leaves the breakpoints as they are and answers with the
\* line, not with "Wrong line number.".
AddCollapses == [][AddStep]_vars

(***************************************************************************)
(* The properties of the counters of the cache.                            *)
(***************************************************************************)
\* The bytes evalRegisterNewScript counts for the entry under k.
EntryBytes(scripts, k) == sdsAllocSize(k) + sdsAllocSize(scripts[k].body)

RECURSIVE SumOver(_, _)
SumOver(sizes, count) ==
  IF sizes = {} THEN 0
  ELSE LET s == CHOOSE x \in sizes : TRUE
       IN s * count[s] + SumOver(sizes \ {s}, count)

\* The sum of the bytes of the entries of a cache map: the entries are
\* counted size by size.
BytesOf(scripts) ==
  LET size == [k \in DOMAIN scripts |-> EntryBytes(scripts, k)]
      sizes == {size[k] : k \in DOMAIN scripts}
  IN SumOver(sizes,
             [s \in sizes |-> Cardinality({k \in DOMAIN scripts : size[k] = s})])

\* C36: the memory counter of the cache is the sum, over the entries the
\* cache holds, of the bytes of the digest and of the body, whatever
\* insertions, promotions, evictions, runs and flushes came before; it is
\* 0 when the cache is empty.
MemoryTotal ==
  /\ evalCtx.scripts_mem = BytesOf(evalCtx.scripts)
  /\ DOMAIN evalCtx.scripts = {} => evalCtx.scripts_mem = 0

\* EVAL evicted an entry while the cache held an entry that SCRIPT LOAD
\* had promoted.
MemoryTotalWitness ==
  /\ last.cmd = "EVAL" /\ last.ncompile = 1 /\ last.nfree = 1
  /\ last.before.lru = LRU_LIST_LENGTH
  /\ \E k \in DOMAIN evalCtx.scripts : evalCtx.scripts[k].node = NULL
  /\ evalCtx.scripts_mem > 0

\* The entries a step adds to the cache with a node of the LRU list, and
\* the entries it takes out of the cache.
EphemeralInserted ==
  {k \in DOMAIN evalCtx'.scripts \ DOMAIN evalCtx.scripts :
     evalCtx'.scripts[k].node # NULL}

Removed == DOMAIN evalCtx.scripts \ DOMAIN evalCtx'.scripts

\* A step counts one eviction when it inserts an ephemeral entry into a
\* list that holds 500 digests, and none otherwise; but for a flush, the
\* entries that leave the cache are as many as the evictions counted.
EvictedStep ==
  /\ server'.stat_evictedscripts - server.stat_evictedscripts =
       IF EphemeralInserted # {} /\
          Len(evalCtx.scripts_lru_list) = LRU_LIST_LENGTH
       THEN 1 ELSE 0
  /\ ~(last'.cmd = "SCRIPT FLUSH" /\ last'.reply.kind = "OK")
       => Cardinality(Removed) =
            server'.stat_evictedscripts - server.stat_evictedscripts
  /\ server'.stat_evictedscripts > server.stat_evictedscripts
       => /\ last'.cmd = "EVAL" /\ last'.ncompile = 1
          /\ Removed = {evalCtx.scripts_lru_list[1].value}

\* C37: stat_evictedscripts grows by one with each entry the overflow of
\* the LRU list removes and with nothing else: promotion, flush, runs,
\* refused bodies and insertions below the bound leave it as it is.
EvictedCounts == [][EvictedStep]_vars

\* Two evictions were counted, and the flush that emptied the cache
\* afterwards left the counter.
EvictedCountsWitness ==
  /\ server.stat_evictedscripts = 2
  /\ last.cmd = "SCRIPT FLUSH" /\ last.reply.kind = "OK"
  /\ last.before.lru = LRU_LIST_LENGTH
  /\ DOMAIN evalCtx.scripts = {}

(***************************************************************************)
(* The properties of the engine handles of the cache.                      *)
(***************************************************************************)
\* The descriptors the registry holds.
Registered == {engineMgr.engines[n] : n \in DOMAIN engineMgr.engines}

\* C38: the engine handle of every entry of the cache is the descriptor of
\* an engine that is registered, whatever engines were registered and
\* unregistered and whatever EVAL, SCRIPT LOAD and SCRIPT FLUSH ran
\* before: no entry is left to dispatch through a descriptor that
\* scriptingEngineManagerUnregister has freed.
HandlesRegistered ==
  \A k \in DOMAIN evalCtx.scripts :
    /\ evalCtx.scripts[k].engine \in Registered
    /\ engineMgr.heap[evalCtx.scripts[k].engine].state = "live"

(***************************************************************************)
(* The properties of the Lua states of the compiled functions.             *)
(***************************************************************************)
\* The Lua states the engines hold.
EvalStates ==
  {engineMgr.heap[e].eval_lua : e \in DOMAIN engineMgr.heap} \ {NULL}

\* Every function of the cache was compiled in the Lua state its engine
\* holds; every function of a job was compiled in a state that a callback
\* of the same job holds, that no engine holds and that is not destroyed.
StatesKept ==
  /\ engineMgr.closed = {}
  /\ \A k \in DOMAIN evalCtx.scripts :
       evalCtx.scripts[k].lua =
         engineMgr.heap[evalCtx.scripts[k].engine].eval_lua
  /\ \A i \in 1..Len(bio_jobs) :
       /\ StatesOf(bio_jobs[i].scripts) \subseteq
            ContextsOf(bio_jobs[i].engine_callbacks)
       /\ ContextsOf(bio_jobs[i].engine_callbacks) \cap EvalStates = {}
       /\ \A j \in 1..Len(bio_jobs) :
            i # j => ContextsOf(bio_jobs[i].engine_callbacks) \cap
                       ContextsOf(bio_jobs[j].engine_callbacks) = {}

\* What a flush and a job of the background thread do with the Lua
\* states: no function is freed after its state was destroyed; the
\* synchronous flush takes the reference of every function out of the
\* state of the engine, which it destroys afterwards; the asynchronous
\* flush and the job take no reference out of any state, and the job
\* destroys the old state after it freed the functions.
StatesStep ==
  /\ ~last'.stale
  /\ StatesKept'
  /\ (last'.cmd = "SCRIPT FLUSH" /\ last'.arg = <<"sync">>)
       => /\ last'.nfree = Cardinality(DOMAIN evalCtx.scripts)
          /\ last'.nunref = last'.nfree
          /\ last'.nreset = Cardinality(DOMAIN engineMgr.engines)
          /\ last'.ncallback = 0
          /\ bio_jobs' = bio_jobs
  /\ (last'.cmd = "SCRIPT FLUSH" /\ last'.arg = <<"async">>)
       => /\ last'.nunref = 0
          /\ last'.nreset = Cardinality(DOMAIN engineMgr.engines)
          /\ Len(bio_jobs') > Len(bio_jobs)
               => /\ last'.nfree = 0 /\ last'.ncallback = 0
                  /\ StatesOf(bio_jobs'[Len(bio_jobs')].scripts) # {}
          /\ Len(bio_jobs') = Len(bio_jobs)
               => /\ last'.nfree = Cardinality(DOMAIN evalCtx.scripts)
                  /\ last'.ncallback = 1
  /\ last'.cmd = "lazyfree"
       => /\ last'.nunref = 0
          /\ last'.nfree = Cardinality(DOMAIN bio_jobs[1].scripts)
          /\ last'.ncallback = 1
          /\ engineMgr'.heap = engineMgr.heap

\* C39: a compiled function of the cache is never freed after the Lua
\* state that compiled it was destroyed.  The synchronous flush frees
\* every entry in the state of the engine before it resets an engine; the
\* asynchronous flush gives every engine a new state first, the callback
\* that destroys the old state runs after every entry of the flushed
\* cache was freed, and the frees take nothing out of the new state.
StatesOutlive == [][StatesStep]_vars

\* The background thread freed the functions of the job of an
\* asynchronous flush and destroyed their state, while the cache held a
\* script compiled in the new state of the engine.
StatesOutliveWitness ==
  /\ last.cmd = "lazyfree" /\ last.nfree = NumFill /\ last.ncallback = 1
  /\ DOMAIN evalCtx.scripts # {}
  /\ bio_jobs = <<>>
  /\ server.lazyfreed_objects = NumFill

(***************************************************************************)
(* The properties of the keys of the cache.                                *)
(***************************************************************************)
\* The digests of the bodies of KeyBodies, computed once.
KeyDigest == [b \in KeyBodies |-> sha1hex(b)]

\* Every key is the digest of the body of its entry.
KeysHashed ==
  \A k \in DOMAIN evalCtx.scripts :
    /\ evalCtx.scripts[k].body \in KeyBodies
    /\ k = KeyDigest[evalCtx.scripts[k].body]

\* A step adds an entry only for the body EVAL or SCRIPT LOAD was given;
\* SCRIPT LOAD answers with the key of the entry of its body; SCRIPT SHOW
\* of a key answers with the body of the entry, whose digest is the key;
\* a command given one body leaves the entries of the other bodies alone.
KeysStep ==
  /\ KeysHashed'
  /\ \A k \in DOMAIN evalCtx'.scripts \ DOMAIN evalCtx.scripts :
       /\ last'.cmd \in {"EVAL", "SCRIPT LOAD"}
       /\ evalCtx'.scripts[k].body = last'.arg
  /\ (last'.cmd = "SCRIPT LOAD" /\ last'.reply.kind = "bulk")
       => /\ last'.reply.data = KeyDigest[last'.arg]
          /\ last'.reply.data \in DOMAIN evalCtx'.scripts
          /\ evalCtx'.scripts[last'.reply.data].body = last'.arg
  /\ (last'.cmd = "SCRIPT SHOW" /\ last'.arg \in DOMAIN evalCtx.scripts)
       => /\ last'.reply = ReplyOf("bulk", evalCtx.scripts[last'.arg].body)
          /\ KeyDigest[last'.reply.data] = last'.arg
  /\ (last'.cmd \in {"EVAL", "SCRIPT LOAD"} /\ last'.arg \in KeyBodies)
       => \A other \in KeyBodies \ {last'.arg} :
            KeyDigest[other] \in DOMAIN evalCtx'.scripts
              <=> KeyDigest[other] \in DOMAIN evalCtx.scripts

\* C40: every key of the cache map is the SHA-1 digest of the whole body
\* of its entry, header included; an entry is created only from the body
\* a command was given; SCRIPT SHOW of the digest SCRIPT LOAD returned
\* answers with that body; bodies that differ only in their header have
\* entries of their own.
KeysAreDigests == [][KeysStep]_vars

\* SCRIPT SHOW returned the body without header while the cache held the
\* three bodies that differ in their header only.
KeysAreDigestsWitness ==
  /\ last.cmd = "SCRIPT SHOW" /\ last.reply = ReplyOf("bulk", BodyNoFlags)
  /\ \A b \in KeyBodies : KeyDigest[b] \in DOMAIN evalCtx.scripts
  /\ Cardinality(DOMAIN evalCtx.scripts) = 3

====
